---- MODULE Spec2Model ----
(***************************************************************************)
(* Model of the Bignay image-analysis core: the subject gate               *)
(* _is_bignay_image of app.py, applied to the features and the quality     *)
(* assessment that utils_image.py produces for one /predict request.       *)
(*                                                                         *)
(* Numbers.  A confidence is a float in [0,1]; it is modelled in           *)
(* hundredths (0.25 is 25), so every threshold of the gate is an integer   *)
(* and every comparison of the code keeps its direction.  Hue, saturation  *)
(* and value are the OpenCV 8-bit HSV channel means (hue 0..179,           *)
(* saturation and value 0..255), sampled on the integers.                  *)
(*                                                                         *)
(* Python values.  None is the empty tuple <<>>; a str | None field holds  *)
(* None or <<text>>.  A dict is a record; a key the code does not set is   *)
(* a field the record does not have.                                       *)
(***************************************************************************)
EXTENDS Integers, Sequences, FiniteSets, TLC

VARIABLES
    confidence,     \* current_confidence handed to the gate (hundredths)
    features,       \* the ImageFeatures the gate reads (color_hsv_mean)
    image_quality,  \* the ImageQuality the gate reads, or None
    detection,      \* bignay_detection: the dict the gate returned, or None
    measured,       \* what assess_image_quality measures on its arguments
    assessed,       \* the ImageQuality assess_image_quality returned, or None
    image_bgr,      \* the pixel grid handed to extract_features, or None
    segmented,      \* what _largest_contour_mask returned, or None
    extracted,      \* the ImageFeatures extract_features returned, or None
    data_url,       \* the string handed to decode_data_url, or None
    decoded,        \* how decode_data_url ended: bytes returned or an error raised
    body,           \* the JSON body of a POST /predict, or None
    grids,          \* the pixel grids alive at the end of the request, by object
    calls,          \* the pixels each call of the request was handed
    response,       \* the HTTP response of the request, or None
    record,         \* the record handed to the prediction store, or None
    classifiers,    \* the module-level KerasClassifier objects, by name
    loads,          \* how many times load_model was called, by classifier
    store,          \* the module-level PredictionStore object
    pinged,         \* whether a ping of the server has ever succeeded
    store_calls,    \* the calls made on the store so far and how each ended
    requests,       \* the concurrent POST /predict requests, by thread
    classified,     \* the subject of a request and, once classified, its
                    \* fruit_pred or leaf_pred
    pc              \* "call" before the gate ran, "returned" after;
                    \* "assess" before assess_image_quality ran, "assessed" after;
                    \* "extract" before extract_features ran, "extracted" after;
                    \* "decode" before decode_data_url ran, "decoded" after;
                    \* "request" before /predict ran, "responded" after;
                    \* "classify" before the fallback classifier and the
                    \* gate ran, "returned" after;
                    \* "analyse" before extract_features and
                    \* assess_image_quality ran, "analysed" after;
                    \* "serving" while concurrent requests run, "store"
                    \* while calls are made on the store

gateVars == <<confidence, features, image_quality, detection>>

qualityVars == <<measured, assessed>>

featureVars == <<image_bgr, segmented, extracted>>

decodeVars == <<data_url, decoded>>

requestVars == <<body, grids, calls, response, record>>

processVars == <<classifiers, loads, store, pinged, store_calls, requests>>

vars == <<gateVars, qualityVars, featureVars, decodeVars, requestVars,
          processVars, classified, pc>>

None == <<>>

Some(text) == <<text>>

---------------------------------------------------------------------------
(* Bounds of the model *)

\* Longest issues list drawn for an ImageQuality (the code produces 0..4).
MaxIssues == 3

---------------------------------------------------------------------------
(* Thresholds of app.py, in hundredths *)

BIGNAY_CONFIDENCE_THRESHOLD == 45

MIN_CONFIDENCE_THRESHOLD == 30

ABSOLUTE_MIN_THRESHOLD == 25

---------------------------------------------------------------------------
(* Python list and string helpers *)

\* seq[:n]
Take(seq, n) == SubSeq(seq, 1, IF Len(seq) < n THEN Len(seq) ELSE n)

\* sep.join(seq)
RECURSIVE Join(_, _)
Join(seq, sep) ==
    IF Len(seq) = 0 THEN ""
    ELSE IF Len(seq) = 1 THEN seq[1]
    ELSE seq[1] \o sep \o Join(Tail(seq), sep)

---------------------------------------------------------------------------
(* utils_image.assess_image_quality: the part that builds the issues and  *)
(* recommendations lists and the overall tier.  The four measurements are *)
(* abstracted to the band each falls in.                                  *)

BlurBands == {"lt30", "lt50", "sharp"}          \* blur_score < 0.3, < 0.5, else

BrightnessBands == {"lt25", "mid", "gt75"}      \* brightness < 0.25, > 0.75, else

ContrastBands == {"lt30", "fine"}               \* contrast_score < 0.3, else

CoverageBands == {"lt03", "mid", "gt60"}        \* mask_coverage < 0.03, > 0.60, else

AvgBands == {"ge60", "ge35", "lt35"}            \* avg_score >= 0.6, >= 0.35, else

\* Mutant: the second sharpness test is an 'if' of its own, not an 'elif'.
Findings_SecondIf(blur, brightness, contrast, coverage) ==
    (IF blur = "lt30"
        THEN << <<"Image appears blurry", "Hold the camera steady or tap to focus">>,
                <<"Image is slightly out of focus", "Try focusing on the fruit/leaf">> >>
     ELSE IF blur = "lt50"
        THEN << <<"Image is slightly out of focus", "Try focusing on the fruit/leaf">> >>
     ELSE <<>>)
    \o
    (IF brightness = "lt25"
        THEN << <<"Image is too dark", "Move to better lighting or use flash">> >>
     ELSE IF brightness = "gt75"
        THEN << <<"Image is overexposed", "Reduce direct light or move to shade">> >>
     ELSE <<>>)
    \o
    (IF contrast = "lt30"
        THEN << <<"Low contrast detected",
                  "Ensure the fruit/leaf stands out from background">> >>
     ELSE <<>>)
    \o
    (IF coverage = "lt03"
        THEN << <<"Subject appears too far or small",
                  "Move closer to the Bignay fruit or leaf">> >>
     ELSE IF coverage = "gt60"
        THEN << <<"Subject is too close",
                  "Move back slightly to capture the whole fruit/leaf">> >>
     ELSE <<>>)

\* The (issue, recommendation) pairs appended, in the order of the code.
Findings(blur, brightness, contrast, coverage) ==
    (IF blur = "lt30"
        THEN << <<"Image appears blurry", "Hold the camera steady or tap to focus">> >>
     ELSE IF blur = "lt50"
        THEN << <<"Image is slightly out of focus", "Try focusing on the fruit/leaf">> >>
     ELSE <<>>)
    \o
    (IF brightness = "lt25"
        THEN << <<"Image is too dark", "Move to better lighting or use flash">> >>
     ELSE IF brightness = "gt75"
        THEN << <<"Image is overexposed", "Reduce direct light or move to shade">> >>
     ELSE <<>>)
    \o
    (IF contrast = "lt30"
        THEN << <<"Low contrast detected",
                  "Ensure the fruit/leaf stands out from background">> >>
     ELSE <<>>)
    \o
    (IF coverage = "lt03"
        THEN << <<"Subject appears too far or small",
                  "Move closer to the Bignay fruit or leaf">> >>
     ELSE IF coverage = "gt60"
        THEN << <<"Subject is too close",
                  "Move back slightly to capture the whole fruit/leaf">> >>
     ELSE <<>>)

\* Mutant: the second test joins its two conditions with 'and'.
OverallQuality_And(avg, n_issues) ==
    IF avg = "ge60" /\ n_issues <= 1 THEN "good"
    ELSE IF avg \in {"ge60", "ge35"} /\ n_issues <= 2 THEN "acceptable"
    ELSE "poor"

\* if avg_score >= 0.6 and len(issues) <= 1 / elif avg_score >= 0.35 or
\* len(issues) <= 2 / else
OverallQuality(avg, n_issues) ==
    IF avg = "ge60" /\ n_issues <= 1 THEN "good"
    ELSE IF avg \in {"ge60", "ge35"} \/ n_issues <= 2 THEN "acceptable"
    ELSE "poor"

\* The fields of the returned ImageQuality that the gate reads.
ImageQuality(blur, brightness, contrast, coverage, avg) ==
    LET found == Findings(blur, brightness, contrast, coverage)
    IN  [overall_quality |-> OverallQuality(avg, Len(found)),
         issues          |-> [i \in 1..Len(found) |-> found[i][1]],
         recommendations |-> [i \in 1..Len(found) |-> found[i][2]]]

---------------------------------------------------------------------------
(* utils_image.assess_image_quality on numbers.                            *)
(*                                                                         *)
(* The arguments are measured in integer units that put every threshold   *)
(* of the code on the grid:                                               *)
(*   laplacian_var   the variance of the Laplacian, in units of 1;        *)
(*   gray_mean       np.mean(gray) in quarters of a gray level, so that   *)
(*                   brightness = gray_mean / 1020;                       *)
(*   gray_std        np.std(gray) in tenths of a gray level, so that      *)
(*                   contrast = gray_std / 1280;                          *)
(*   mask_coverage   in thousandths.                                      *)
(* A score is an integer number of ScoreUnit-ths: ScoreUnit is the least  *)
(* common multiple of the divisors 500, 306 (0.3 * 1020), 1280 and 50, so *)
(* every division of the code is exact.  The returned scores are rounded  *)
(* to thousandths, as round(x, 3) does.                                   *)

ScoreUnit == 256 * 125 * 153

\* min(1.0, x)
Min(a, b) == IF a < b THEN a ELSE b

\* max(0.3, x), max(0.0, x)
Max(a, b) == IF a < b THEN b ELSE a

\* round(x, 3), in thousandths
Round3(score) ==
    LET milli == ScoreUnit \div 1000
    IN  (score \div milli) + (IF 2 * (score % milli) >= milli THEN 1 ELSE 0)

\* Mutant: the blur score is not capped at 1.0.
BlurScore_NoCap(laplacian_var) == laplacian_var * (ScoreUnit \div 500)

\* blur_score = min(1.0, laplacian_var / 500.0)
BlurScore(laplacian_var) == Min(ScoreUnit, laplacian_var * (ScoreUnit \div 500))

\* brightness_score, from brightness = np.mean(gray) / 255.0
BrightnessScore(gray_mean) ==
    LET raw == IF 306 <= gray_mean /\ gray_mean <= 714 THEN ScoreUnit
               ELSE IF gray_mean < 306 THEN gray_mean * (ScoreUnit \div 306)
               ELSE (1020 - gray_mean) * (ScoreUnit \div 306)
    IN  Max(0, Min(ScoreUnit, raw))

\* contrast_score = min(1.0, np.std(gray) / 128.0)
ContrastScore(gray_std) == Min(ScoreUnit, gray_std * (ScoreUnit \div 1280))

\* Mutant: the decay above 0.50 has no floor of 0.3.
SubjectSizeScore_NoFloor(mask_coverage) ==
    LET raw == IF 50 <= mask_coverage /\ mask_coverage <= 500 THEN ScoreUnit
               ELSE IF mask_coverage < 50 THEN mask_coverage * (ScoreUnit \div 50)
               ELSE ScoreUnit - (mask_coverage - 500) * (ScoreUnit \div 500)
    IN  Max(0, Min(ScoreUnit, raw))

\* subject_size_score, from mask_coverage
SubjectSizeScore(mask_coverage) ==
    LET raw == IF 50 <= mask_coverage /\ mask_coverage <= 500 THEN ScoreUnit
               ELSE IF mask_coverage < 50 THEN mask_coverage * (ScoreUnit \div 50)
               ELSE Max((3 * ScoreUnit) \div 10,
                        ScoreUnit - (mask_coverage - 500) * (ScoreUnit \div 500))
    IN  Max(0, Min(ScoreUnit, raw))

\* The branch of each check of the issues that a measurement takes.
BlurBand(blur_score) ==
    IF 10 * blur_score < 3 * ScoreUnit THEN "lt30"
    ELSE IF 10 * blur_score < 5 * ScoreUnit THEN "lt50"
    ELSE "sharp"

BrightnessBand(gray_mean) ==
    IF gray_mean < 255 THEN "lt25"          \* brightness < 0.25
    ELSE IF gray_mean > 765 THEN "gt75"     \* brightness > 0.75
    ELSE "mid"

ContrastBand(contrast_score) ==
    IF 10 * contrast_score < 3 * ScoreUnit THEN "lt30" ELSE "fine"

\* Mutant: a subject counts as too far only under half a percent.
CoverageBand_HalfPercent(mask_coverage) ==
    IF mask_coverage < 5 THEN "lt03"
    ELSE IF mask_coverage > 600 THEN "gt60"
    ELSE "mid"

CoverageBand(mask_coverage) ==
    IF mask_coverage < 30 THEN "lt03"
    ELSE IF mask_coverage > 600 THEN "gt60"
    ELSE "mid"

\* 4 * avg_score
ScoreSum(m) ==
    BlurScore(m.laplacian_var) + BrightnessScore(m.gray_mean)
        + ContrastScore(m.gray_std) + SubjectSizeScore(m.mask_coverage)

\* avg_score >= 0.6, avg_score >= 0.35, else
AvgBand(score_sum) ==
    IF 5 * score_sum >= 12 * ScoreUnit THEN "ge60"
    ELSE IF 5 * score_sum >= 7 * ScoreUnit THEN "ge35"
    ELSE "lt35"

assess_image_quality(m) ==
    LET blur_score         == BlurScore(m.laplacian_var)
        brightness_score   == BrightnessScore(m.gray_mean)
        contrast_score     == ContrastScore(m.gray_std)
        subject_size_score == SubjectSizeScore(m.mask_coverage)
        found == Findings(BlurBand(blur_score), BrightnessBand(m.gray_mean),
                          ContrastBand(contrast_score), CoverageBand(m.mask_coverage))
    IN  [blur_score         |-> Round3(blur_score),
         brightness_score   |-> Round3(brightness_score),
         contrast_score     |-> Round3(contrast_score),
         subject_size_score |-> Round3(subject_size_score),
         overall_quality    |-> OverallQuality(AvgBand(ScoreSum(m)), Len(found)),
         issues             |-> [i \in 1..Len(found) |-> found[i][1]],
         recommendations    |-> [i \in 1..Len(found) |-> found[i][2]]]

\* Measurements on both sides of every threshold of the code.
LaplacianVars == {0, 60, 149, 150, 249, 250, 499, 500, 501, 2000}

GrayMeans == {0, 100, 254, 255, 256, 305, 306, 510, 714, 715, 765, 766, 1020}

GrayStds == {0, 100, 383, 384, 800, 1275}

MaskCoverages ==
    {0, 9, 10, 11, 14, 15, 16, 29, 30, 49, 50, 300, 500, 501, 600, 601,
     849, 850, 851, 1000}

\* The measurements one image can give: the standard deviation of values
\* in [0, 255] with mean mu is at most sqrt(mu * (255 - mu)), and an image
\* with no gray variation has a Laplacian that is zero everywhere.
Measurements ==
    { m \in [laplacian_var : LaplacianVars, gray_mean : GrayMeans,
             gray_std : GrayStds, mask_coverage : MaskCoverages] :
        /\ 16 * m.gray_std * m.gray_std <= 100 * m.gray_mean * (1020 - m.gray_mean)
        /\ m.gray_std = 0 => m.laplacian_var = 0 }

---------------------------------------------------------------------------
(* Inputs of the gate *)

\* Hundredths: each threshold of the gate, the value just below it, and
\* points inside every interval between two thresholds.
Confidences ==
    {0, 20, 24, 25, 29, 30, 44, 45, 50, 54, 55, 59, 60, 64, 65, 69, 70, 80, 100}

\* Both ends of each hue range the gate distinguishes.
Hues == {0, 20, 21, 34, 35, 90, 91, 129, 130, 179}

\* Both sides of each saturation threshold (40, 50, 60).
Saturations == {0, 40, 41, 50, 51, 60, 61}

\* The gate unpacks v and never reads it.
Values == {60, 200}

Qualities ==
    {None} \cup
    { q \in { ImageQuality(bl, br, ct, cv, avg) :
                bl \in BlurBands, br \in BrightnessBands, ct \in ContrastBands,
                cv \in CoverageBands, avg \in AvgBands } :
        Len(q.issues) <= MaxIssues }

---------------------------------------------------------------------------
(* app._is_bignay_image *)

\* Mutant: the green range taken exclusive of its lower end.
is_typical_bignay_color_GreenExclusive(h) ==
    LET is_red_purple == (h <= 20) \/ (h >= 130)
        is_green      == (35 < h) /\ (h <= 90)
    IN  is_red_purple \/ is_green

\* HSV hue: red/purple/magenta (h <= 20 or h >= 130) or green (35 <= h <= 90).
is_typical_bignay_color(h) ==
    LET is_red_purple == (h <= 20) \/ (h >= 130)
        is_green      == (35 <= h) /\ (h <= 90)
    IN  is_red_purple \/ is_green

\* Mutant: the orange/yellow saturation threshold used for blue/cyan too.
is_clearly_not_bignay_color_OneThreshold(h, s) ==
    LET is_orange_yellow == (20 < h /\ h < 35) /\ s > 50
        is_blue_cyan     == (90 < h /\ h < 130) /\ s > 50
    IN  is_orange_yellow \/ is_blue_cyan

\* Mutant: only blue/cyan counts as a clearly wrong color.
is_clearly_not_bignay_color_BlueOnly(h, s) ==
    LET is_blue_cyan == (90 < h /\ h < 130) /\ s > 40
    IN  is_blue_cyan

\* Orange/yellow (20 < h < 35, s > 50) or blue/cyan (90 < h < 130, s > 40).
is_clearly_not_bignay_color(h, s) ==
    LET is_orange_yellow == (20 < h /\ h < 35) /\ s > 50
        is_blue_cyan     == (90 < h /\ h < 130) /\ s > 40
    IN  is_orange_yellow \/ is_blue_cyan

\* Mutant: the reason lists every issue instead of the first two.
Step1Verdict_AllIssues(quality_issues, quality_recommendations) ==
    LET base == "The image does not appear to be a Bignay fruit or leaf."
        reason ==
            IF quality_issues # <<>>
                THEN base \o " Issues: " \o Join(quality_issues, ", ") \o "."
                ELSE base \o " Model confidence is very low."
    IN  [is_bignay               |-> FALSE,
         confidence_level        |-> "very_low",
         reason                  |-> Some(reason),
         quality_issues          |-> quality_issues,
         quality_recommendations |-> quality_recommendations]

\* STEP 1: confidence < ABSOLUTE_MIN_THRESHOLD.
Step1Verdict(quality_issues, quality_recommendations) ==
    LET base == "The image does not appear to be a Bignay fruit or leaf."
        reason ==
            IF quality_issues # <<>>
                THEN base \o " Issues: " \o Join(Take(quality_issues, 2), ", ") \o "."
                ELSE base \o " Model confidence is very low."
    IN  [is_bignay               |-> FALSE,
         confidence_level        |-> "very_low",
         reason                  |-> Some(reason),
         quality_issues          |-> quality_issues,
         quality_recommendations |-> quality_recommendations]

\* Mutant: the color mismatch is reported on an accepting verdict.
Step2Verdict_Accepting(quality_issues) ==
    [is_bignay               |-> TRUE,
     confidence_level        |-> "color_mismatch",
     reason                  |-> Some("The image color does not match Bignay. Bignay fruits are typically dark purple/red (ripe) or green (unripe)."),
     quality_issues          |-> quality_issues,
     quality_recommendations |-> <<"Make sure you're scanning a Bignay fruit or leaf">>]

\* Mutant: the color-mismatch reject drops the issues of the quality.
Step2Verdict_NoIssues(quality_issues) ==
    [is_bignay               |-> FALSE,
     confidence_level        |-> "color_mismatch",
     reason                  |-> Some("The image color does not match Bignay. Bignay fruits are typically dark purple/red (ripe) or green (unripe)."),
     quality_issues          |-> <<>>,
     quality_recommendations |-> <<"Make sure you're scanning a Bignay fruit or leaf">>]

\* STEP 2: is_clearly_not_bignay_color and confidence < 0.60.
Step2Verdict(quality_issues) ==
    [is_bignay               |-> FALSE,
     confidence_level        |-> "color_mismatch",
     reason                  |-> Some("The image color does not match Bignay. Bignay fruits are typically dark purple/red (ripe) or green (unripe)."),
     quality_issues          |-> quality_issues,
     quality_recommendations |-> <<"Make sure you're scanning a Bignay fruit or leaf">>]

\* Mutant: the low-confidence accept carries no reason.
Step3Verdict_NoReason(is_typical, overall_quality, quality_issues, quality_recommendations) ==
    IF ~is_typical
        THEN [is_bignay               |-> FALSE,
              confidence_level        |-> "low",
              reason                  |-> Some("The image does not appear to be a Bignay. Color and confidence do not match expected values."),
              quality_issues          |-> quality_issues,
              quality_recommendations |-> quality_recommendations]
    ELSE IF overall_quality \in {"poor", "acceptable"} /\ is_typical
        THEN [is_bignay               |-> TRUE,
              confidence_level        |-> "very_low",
              reason                  |-> None,
              quality_issues          |-> quality_issues,
              quality_recommendations |-> quality_recommendations,
              warning                 |-> "Results may be inaccurate. Try capturing a clearer image."]
    ELSE [is_bignay               |-> FALSE,
          confidence_level        |-> "low",
          reason                  |-> Some("The image might not be a Bignay fruit or leaf. Please verify."),
          quality_issues          |-> quality_issues,
          quality_recommendations |-> quality_recommendations]

\* STEP 3: confidence < MIN_CONFIDENCE_THRESHOLD.
Step3Verdict(is_typical, overall_quality, quality_issues, quality_recommendations) ==
    IF ~is_typical
        THEN [is_bignay               |-> FALSE,
              confidence_level        |-> "low",
              reason                  |-> Some("The image does not appear to be a Bignay. Color and confidence do not match expected values."),
              quality_issues          |-> quality_issues,
              quality_recommendations |-> quality_recommendations]
    ELSE IF overall_quality \in {"poor", "acceptable"} /\ is_typical
        THEN [is_bignay               |-> TRUE,
              confidence_level        |-> "very_low",
              reason                  |-> Some("Detection confidence is very low, but color profile matches Bignay."),
              quality_issues          |-> quality_issues,
              quality_recommendations |-> quality_recommendations,
              warning                 |-> "Results may be inaccurate. Try capturing a clearer image."]
    ELSE [is_bignay               |-> FALSE,
          confidence_level        |-> "low",
          reason                  |-> Some("The image might not be a Bignay fruit or leaf. Please verify."),
          quality_issues          |-> quality_issues,
          quality_recommendations |-> quality_recommendations]

\* Mutant: everything under the main threshold is rejected.
Step4Verdict_Rejecting(quality_issues, quality_recommendations) ==
    [is_bignay               |-> FALSE,
     confidence_level        |-> "low",
     reason                  |-> Some("The image might not be a Bignay fruit or leaf. Please verify."),
     quality_issues          |-> quality_issues,
     quality_recommendations |-> quality_recommendations]

\* Mutant: the warning names the first issue only.
Step4Verdict_FirstIssue(quality_issues, quality_recommendations) ==
    LET warning_msg ==
            IF quality_issues # <<>>
                THEN "Results may be affected by: "
                         \o Join(Take(quality_issues, 1), ", ") \o "."
                ELSE "Results may be less accurate due to low confidence."
    IN  [is_bignay               |-> TRUE,
         confidence_level        |-> "low",
         reason                  |-> None,
         quality_issues          |-> quality_issues,
         quality_recommendations |-> quality_recommendations,
         warning                 |-> warning_msg]

\* Mutant: the caveat is returned as the reason as well.
Step4Verdict_ReasonSet(quality_issues, quality_recommendations) ==
    LET warning_msg ==
            IF quality_issues # <<>>
                THEN "Results may be affected by: "
                         \o Join(Take(quality_issues, 2), ", ") \o "."
                ELSE "Results may be less accurate due to low confidence."
    IN  [is_bignay               |-> TRUE,
         confidence_level        |-> "low",
         reason                  |-> Some(warning_msg),
         quality_issues          |-> quality_issues,
         quality_recommendations |-> quality_recommendations,
         warning                 |-> warning_msg]

\* STEP 4: confidence < BIGNAY_CONFIDENCE_THRESHOLD.
Step4Verdict(quality_issues, quality_recommendations) ==
    LET warning_msg ==
            IF quality_issues # <<>>
                THEN "Results may be affected by: "
                         \o Join(Take(quality_issues, 2), ", ") \o "."
                ELSE "Results may be less accurate due to low confidence."
    IN  [is_bignay               |-> TRUE,
         confidence_level        |-> "low",
         reason                  |-> None,
         quality_issues          |-> quality_issues,
         quality_recommendations |-> quality_recommendations,
         warning                 |-> warning_msg]

\* STEP 5, first return: unusual color at a middling confidence.
AtypicalVerdict(quality_issues) ==
    [is_bignay               |-> TRUE,
     confidence_level        |-> "medium",
     reason                  |-> None,
     quality_issues          |-> quality_issues,
     quality_recommendations |-> <<"Color appears unusual - verify if needed">>,
     warning                 |-> "Color profile is atypical for Bignay"]

\* Mutant: every detection at or above the main threshold is at least medium.
ConfidenceLevel_NoLow(conf) ==
    IF conf >= 70 THEN "high"
    ELSE IF conf >= 45 THEN "medium"
    ELSE "low"

\* STEP 5: the level of a good detection.
ConfidenceLevel(conf) ==
    IF conf >= 70 THEN "high"
    ELSE IF conf >= 55 THEN "medium"
    ELSE "low"

\* Mutant: the recommendations are kept up to and including 0.60.
Step5Verdict_RecsAt60(conf, quality_issues, quality_recommendations) ==
    [is_bignay               |-> TRUE,
     confidence_level        |-> ConfidenceLevel(conf),
     reason                  |-> None,
     quality_issues          |-> quality_issues,
     quality_recommendations |->
         IF conf <= 60 THEN quality_recommendations ELSE <<>>]

\* STEP 5, last return.
Step5Verdict(conf, quality_issues, quality_recommendations) ==
    [is_bignay               |-> TRUE,
     confidence_level        |-> ConfidenceLevel(conf),
     reason                  |-> None,
     quality_issues          |-> quality_issues,
     quality_recommendations |->
         IF conf < 60 THEN quality_recommendations ELSE <<>>]

IsBignayImage(conf, feat, quality) ==
    LET quality_issues          == IF quality # None THEN quality.issues ELSE <<>>
        quality_recommendations == IF quality # None THEN quality.recommendations ELSE <<>>
        overall_quality         == IF quality # None THEN quality.overall_quality
                                                     ELSE "unknown"
        h == feat.color_hsv_mean[1]
        s == feat.color_hsv_mean[2]
        is_typical == is_typical_bignay_color(h)
    IN  IF conf < ABSOLUTE_MIN_THRESHOLD
            THEN Step1Verdict(quality_issues, quality_recommendations)
        ELSE IF is_clearly_not_bignay_color(h, s) /\ conf < 60
            THEN Step2Verdict(quality_issues)
        ELSE IF conf < MIN_CONFIDENCE_THRESHOLD
            THEN Step3Verdict(is_typical, overall_quality,
                              quality_issues, quality_recommendations)
        ELSE IF conf < BIGNAY_CONFIDENCE_THRESHOLD
            THEN Step4Verdict(quality_issues, quality_recommendations)
        ELSE IF ~is_typical /\ s > 60 /\ conf < 65
            THEN AtypicalVerdict(quality_issues)
        ELSE Step5Verdict(conf, quality_issues, quality_recommendations)

---------------------------------------------------------------------------
(* utils_image._largest_contour_mask and utils_image.extract_features      *)
(*                                                                         *)
(* A pixel grid is modelled with every row the same: it has a height, a    *)
(* width and one tone per column, so the grid is a set of vertical         *)
(* stripes.  Every step of the segmentation keeps the rows equal, so a     *)
(* binary image is the set of its white columns and a connected component  *)
(* is a run of columns over the full height.  The OpenCV calls are         *)
(* modelled by what they compute on such a grid.                           *)

\* The tones of the pixels.
Tones == {"black", "gray", "purple"}

\* cv2.cvtColor(image_bgr, cv2.COLOR_BGR2HSV) of one pixel: H in 0..179,
\* S and V in 0..255.  black is BGR (0,0,0), gray (128,128,128) and
\* purple (80,33,80).
HsvOf(tone) ==
    CASE tone = "black"  -> <<0, 0, 0>>
      [] tone = "gray"   -> <<0, 0, 128>>
      [] tone = "purple" -> <<150, 150, 80>>

\* cv2.cvtColor(image_bgr, cv2.COLOR_BGR2LAB) of one pixel, 8-bit Lab.
LabOf(tone) ==
    CASE tone = "black"  -> <<0, 128, 128>>
      [] tone = "gray"   -> <<137, 128, 128>>
      [] tone = "purple" -> <<55, 157, 109>>

\* Bounds of the pixel grids drawn.
MaxWidth == 21

MaxHeight == 2

\* The grid of the given size with tone fg on columns first..last and tone
\* bg elsewhere.
StripedImage(height, width, bg, fg, first, last) ==
    [height  |-> height,
     width   |-> width,
     columns |-> [x \in 1..width |-> IF first <= x /\ x <= last THEN fg ELSE bg]]

\* The widths drawn: around the radius (3) and the size (7) of the
\* morphology kernel, and up to the bound.
Widths == {1, 2, 3, 4, 7, 8, 14, MaxWidth}

\* The width of the wide grids drawn, on which a small blob covers about a
\* hundredth of the grid, and the widths of the stripe at their left edge.
WideWidth == 150

MaxEdgeStripe == 8

\* The grids drawn: one tone throughout, or a stripe of a second tone.
Images ==
    UNION { { StripedImage(hh, WideWidth, bg, fg, 1, b) :
                hh \in 1..MaxHeight, fg \in Tones \ {bg}, b \in 1..MaxEdgeStripe }
            : bg \in Tones }
    \cup
    { StripedImage(hh, ww, bg, bg, 1, ww) :
        hh \in 1..MaxHeight, ww \in Widths, bg \in Tones }
    \cup
    UNION { UNION { { StripedImage(hh, ww, bg, fg, a, b) :
                        hh \in 1..MaxHeight, fg \in Tones \ {bg},
                        a \in 1..ww, b \in 1..ww }
                    : bg \in Tones }
            : ww \in Widths }

Columns(image) == 1..image.width

\* gray = cv2.addWeighted(s, 0.6, v, 0.4, 0), rounded and saturated to 8 bits
AddWeighted(s, v) == Min(255, (6 * s + 4 * v + 5) \div 10)

\* The column a 7-tap window reads at position i: BORDER_REFLECT_101.
Reflect101(i, width) ==
    IF width = 1 THEN 1
    ELSE LET period == 2 * (width - 1)
             j == (i - 1) % period
         IN  (IF j < width THEN j ELSE period - j) + 1

\* The 7-tap Gaussian kernel OpenCV uses for ksize 7 and sigma 0, in 64ths.
GaussianKernel == <<2, 7, 14, 18, 14, 7, 2>>

\* cv2.GaussianBlur(gray, (7, 7), 0) of a grid whose rows are equal: the
\* vertical pass leaves each column as the horizontal pass made it.
GaussianBlur(gray, width) ==
    [x \in 1..width |->
        LET Tap(k) == GaussianKernel[k] * gray[Reflect101(x + k - 4, width)]
        IN  (Tap(1) + Tap(2) + Tap(3) + Tap(4) + Tap(5) + Tap(6) + Tap(7) + 32)
                \div 64]

GrayLevels(gray, width) == { gray[x] : x \in 1..width }

MinLevel(levels) == CHOOSE g \in levels : \A k \in levels : g <= k

MaxLevel(levels) == CHOOSE g \in levels : \A k \in levels : k <= g

\* The thresholds cv2.threshold(..., THRESH_OTSU) can compute.  Otsu's
\* method returns the level that maximises the between-class variance among
\* the levels that leave both classes non-empty, and 0 when there is none:
\* on a grid of one gray level it returns 0, otherwise a level from the
\* smallest one up to just under the largest one.  The binary image depends
\* only on which levels of the grid lie above the threshold, so each
\* possible threshold is represented by the largest level not above it.
OtsuThresholds(gray, width) ==
    LET levels == GrayLevels(gray, width)
    IN  IF Cardinality(levels) = 1 THEN {0}
        ELSE levels \ {MaxLevel(levels)}

\* THRESH_BINARY: the white columns are those above the threshold.
Threshold(gray, width, t) == { x \in 1..width : gray[x] > t }

\* Dilation and erosion by the 7x7 kernel of ones.  Outside the grid
\* OpenCV's default border value counts as black for a dilation and as
\* white for an erosion.
Dilate(white, width) ==
    { x \in 1..width : \E k \in (x - 3)..(x + 3) : k \in white }

Erode(white, width) ==
    { x \in 1..width : \A k \in (x - 3)..(x + 3) : k \in 1..width => k \in white }

\* cv2.morphologyEx(thresh, cv2.MORPH_CLOSE, kernel, iterations=2)
MorphClose(white, width) ==
    Erode(Erode(Dilate(Dilate(white, width), width), width), width)

\* cv2.morphologyEx(thresh, cv2.MORPH_OPEN, kernel, iterations=1)
MorphOpen(white, width) == Dilate(Erode(white, width), width)

\* cv2.findContours(thresh, RETR_EXTERNAL, ...): one contour around each
\* connected component, here each maximal run first..last of white columns.
FindContours(white, width) ==
    LET ends == { x \in white : (x + 1) \notin white }
        RunEnd(a) == CHOOSE b \in ends : b >= a /\ \A e \in ends : e >= a => b <= e
    IN  { [first |-> a, last |-> RunEnd(a)] :
            a \in { x \in white : (x - 1) \notin white } }

\* cv2.contourArea: the area of the polygon through the centres of the
\* border pixels, for a component of columns first..last over the height.
ContourArea(contour, height) == (contour.last - contour.first) * (height - 1)

\* cv2.drawContours(mask, [contour], -1, 255, thickness=-1): the columns
\* that are 255 in the mask.
DrawContours(contour) == contour.first..contour.last

\* max(contours, key=cv2.contourArea): a contour of the largest area.
LargestContours(contours, height) ==
    { c \in contours :
        \A d \in contours : ContourArea(d, height) <= ContourArea(c, height) }

\* Lines 42-48 of _largest_contour_mask: the blurred blend of saturation
\* and value.  Lines 50-56: the contours found in it when Otsu's method
\* computes threshold t.
SegmentGray(image) ==
    LET w == image.width
        s == [x \in 1..w |-> HsvOf(image.columns[x])[2]]
        v == [x \in 1..w |-> HsvOf(image.columns[x])[3]]
    IN  GaussianBlur([x \in 1..w |-> AddWeighted(s[x], v[x])], w)

SegmentContours(gray, width, t) ==
    FindContours(MorphOpen(MorphClose(Threshold(gray, width, t), width), width), width)

\* What _largest_contour_mask returns when no contour is found: a mask of
\* zeros (no white column) and coverage 0.0.  The coverage is the fraction
\* area / pixels.
NoContourMask(image) ==
    [contours |-> {},
     mask     |-> {},
     height   |-> image.height,
     width    |-> image.width,
     coverage |-> [area |-> 0, pixels |-> image.height * image.width]]

\* What _largest_contour_mask returns when max() picks the given contour.
LargestContourMask(image, contours, contour) ==
    [contours |-> contours,
     mask     |-> DrawContours(contour),
     height   |-> image.height,
     width    |-> image.width,
     coverage |-> [area   |-> ContourArea(contour, image.height),
                   pixels |-> image.height * image.width]]

\* The results _largest_contour_mask can return for an image.
LargestContourMasks(image) ==
    LET gray == SegmentGray(image)
    IN  UNION { LET contours == SegmentContours(gray, image.width, t)
                IN  IF contours = {}
                        THEN { NoContourMask(image) }
                        ELSE { LargestContourMask(image, contours, c) :
                                 c \in LargestContours(contours, image.height) }
                : t \in OtsuThresholds(gray, image.width) }

\* coverage > 0.01
CoverageAboveFloor_MaskNonEmpty(segment) == segment.mask # {}

CoverageAboveFloor(segment) == 100 * segment.coverage.area > segment.coverage.pixels

\* What numpy's mean gives for a channel of no pixel: not a number.  Every
\* mean of pixels is 0 or more.
NaN == -1

\* pixels.mean(axis=0) over the pixels of the given columns, per channel,
\* in hundredths (truncated).
\* A pixel of the hsv or of the lab array.
PixelOf(space, tone) == IF space = "hsv" THEN HsvOf(tone) ELSE LabOf(tone)

ChannelSum(image, cols, space, k) ==
    LET Count(tone) == Cardinality({ x \in cols : image.columns[x] = tone })
        RECURSIVE Sum(_)
        Sum(tones) ==
            IF tones = {} THEN 0
            ELSE LET tone == CHOOSE c \in tones : TRUE
                 IN  Count(tone) * PixelOf(space, tone)[k] + Sum(tones \ {tone})
    IN  Sum(Tones)

PixelMean(image, cols, space) ==
    IF cols = {} THEN [k \in 1..3 |-> NaN]
    ELSE [k \in 1..3 |-> (100 * ChannelSum(image, cols, space, k)) \div Cardinality(cols)]

\* float(np.sqrt(4.0 * area / np.pi)) in tenths of a pixel (truncated), with
\* pi taken as 355/113.
EquivalentDiameter(area) ==
    LET n == (400 * area * 113) \div 355
    IN  CHOOSE d \in 0..(20 * (area + 1)) : d * d <= n /\ n < (d + 1) * (d + 1)

\* sha256_bytes: the digest of a byte string, kept as a term; two byte
\* strings have the same digest only when they are equal.
sha256_bytes(data) == [sha256 |-> data]

\* cv2.imencode(".jpg", image_bgr): a byte string between the JPEG markers
\* FF D8 and FF D9 that holds the size and the pixels of the grid.
ToneByte(tone) ==
    CASE tone = "black"  -> 0
      [] tone = "gray"   -> 1
      [] tone = "purple" -> 2

imencode_jpg(image) ==
    <<255, 216, image.height, image.width>>
        \o [x \in 1..image.width |-> ToneByte(image.columns[x])]
        \o <<255, 217>>

\* extract_features, given what _largest_contour_mask returned.
extract_features(image, segment) ==
    LET masked == CoverageAboveFloor(segment)
        cols == IF masked THEN segment.mask ELSE Columns(image)
    IN  [image_sha256     |-> sha256_bytes(imencode_jpg(image)),
         color_hsv_mean   |-> PixelMean(image, cols, "hsv"),
         color_lab_mean   |-> PixelMean(image, cols, "lab"),
         size_px_diameter |-> IF masked
                                THEN Some(EquivalentDiameter(
                                        Cardinality(segment.mask) * image.height))
                                ELSE None,
         mask_coverage    |-> segment.coverage]

-----
(* utils_image.decode_data_url                                             *)
(*                                                                         *)
(* A string is a sequence of characters, a byte string a sequence of       *)
(* numbers 0..255.  A call ends by returning a value or raising an error.  *)

Returns(value) == [returns |-> value]

Raises(error, message) == [raises |-> error, message |-> message]

\* The characters the strings are drawn from: the separator, the padding,
\* a character outside the base64 alphabet and the digits of value 0 and 63.
Chars == {",", "=", ":", "A", "/"}

MaxUrlLen == 6

Strings == UNION { [1..n -> Chars] : n \in 0..MaxUrlLen }

\* The value of a base64 digit; 64 for a character outside the alphabet.
B64Value(ch) ==
    CASE ch = "A" -> 0
      [] ch = "/" -> 63
      [] OTHER    -> 64

\* binascii.a2b_base64 as base64.b64decode calls it (not strict): characters
\* outside the alphabet are skipped, a padding that completes a quad ends
\* the decoding, and input that ends inside a quad is an error.
RECURSIVE a2b_base64(_, _, _, _, _, _)
a2b_base64(text, i, quad_pos, leftchar, pads, bin) ==
    IF i > Len(text)
        THEN IF quad_pos = 0
                THEN Returns(bin)
             ELSE IF quad_pos = 1
                THEN Raises("binascii.Error", "Invalid base64-encoded string")
             ELSE Raises("binascii.Error", "Incorrect padding")
    ELSE IF text[i] = "="
        THEN IF quad_pos >= 2 /\ quad_pos + pads + 1 >= 4
                THEN Returns(bin)
                ELSE a2b_base64(text, i + 1, quad_pos, leftchar,
                                IF quad_pos >= 2 THEN pads + 1 ELSE pads, bin)
    ELSE IF B64Value(text[i]) >= 64
        THEN a2b_base64(text, i + 1, quad_pos, leftchar, pads, bin)
    ELSE LET this_ch == B64Value(text[i])
         IN  CASE quad_pos = 0 ->
                    a2b_base64(text, i + 1, 1, this_ch, 0, bin)
               [] quad_pos = 1 ->
                    a2b_base64(text, i + 1, 2, this_ch % 16, 0,
                               Append(bin, leftchar * 4 + this_ch \div 16))
               [] quad_pos = 2 ->
                    a2b_base64(text, i + 1, 3, this_ch % 4, 0,
                               Append(bin, leftchar * 16 + this_ch \div 4))
               [] quad_pos = 3 ->
                    a2b_base64(text, i + 1, 0, 0, 0,
                               Append(bin, leftchar * 64 + this_ch))

b64decode(text) == a2b_base64(text, 1, 0, 0, 0, <<>>)

\* sep in text
Contains(text, sep) == \E i \in 1..Len(text) : text[i] = sep

\* text.split(sep, 1): the text cut at the first sep found scanning from the
\* left, or the text alone when it has none.
RECURSIVE SplitOnce(_, _, _)
SplitOnce(text, sep, i) ==
    IF i > Len(text) THEN <<text>>
    ELSE IF text[i] = sep
        THEN <<SubSeq(text, 1, i - 1), SubSeq(text, i + 1, Len(text))>>
    ELSE SplitOnce(text, sep, i + 1)

\* text.rsplit(sep, 1): the same scanning from the right.
RECURSIVE RSplitOnce(_, _, _)
RSplitOnce(text, sep, i) ==
    IF i < 1 THEN <<text>>
    ELSE IF text[i] = sep
        THEN <<SubSeq(text, 1, i - 1), SubSeq(text, i + 1, Len(text))>>
    ELSE RSplitOnce(text, sep, i - 1)

\* Mutant: the payload taken after the last comma.
decode_data_url_LastComma(url) ==
    IF ~Contains(url, ",")
        THEN Raises("ValueError", "Invalid data URL")
        ELSE b64decode(RSplitOnce(url, ",", Len(url))[2])

decode_data_url(url) ==
    IF ~Contains(url, ",")
        THEN Raises("ValueError", "Invalid data URL")
        ELSE b64decode(SplitOnce(url, ",", 1)[2])

---------------------------------------------------------------------------
(* app.predict: the helpers the handler calls                              *)

\* The grid of one tone.
OneTone(height, width, tone) == StripedImage(height, width, tone, tone, 1, width)

\* The byte strings cv2.imdecode decodes, each standing for an image file,
\* with the grid it decodes to.  Every other byte string is not an image.
ImageFiles ==
    { [bytes |-> <<0>>,   image |-> OneTone(1, 1, "gray")],
      [bytes |-> <<3>>,   image |-> OneTone(2, 2, "gray")],
      [bytes |-> <<252>>, image |-> OneTone(2, 4, "purple")],
      [bytes |-> <<255>>, image |-> OneTone(2, 2, "black")] }

\* cv2.imdecode(np_img, cv2.IMREAD_COLOR): the grid, or None
imdecode(img_bytes) ==
    IF \E f \in ImageFiles : f.bytes = img_bytes
        THEN (CHOOSE f \in ImageFiles : f.bytes = img_bytes).image
        ELSE None

decode_image_bytes(img_bytes) ==
    LET image == imdecode(img_bytes)
    IN  IF image = None
            THEN Raises("ValueError", "Could not decode image")
            ELSE Returns(image)

\* The pixels enhance_image_for_detection can compute from a grid of one
\* tone: the bilateral filter, CLAHE on the L channel and the sharpening
\* keep the height and the width, and give every pixel of such a grid the
\* same new value, which depends on the OpenCV build.
Enhancements(image) ==
    { OneTone(image.height, image.width, tone) : tone \in Tones }

\* The arrays of a request, by object.  The decoded image is the first
\* array allocated, the enhanced one the second.
DecodedArray == "ndarray1"

EnhancedArray == "ndarray2"

\* Mutant: the enhancement written into the array it was handed.
enhance_image_for_detection_InPlace(heap, ref, enhanced) ==
    [heap |-> [heap EXCEPT ![ref] = enhanced],
     ref  |-> ref]

\* enhance_image_for_detection(image_bgr): works on image_bgr.copy() and
\* returns a new array holding the enhanced pixels; the arrays after the
\* call and the array returned.
enhance_image_for_detection(heap, ref, enhanced) ==
    [heap |-> heap @@ (EnhancedArray :> enhanced),
     ref  |-> EnhancedArray]

\* _mold_flag_from_image: more than 22% of the pixels are dark (v < 55) and
\* of low saturation (s < 85).
mold_flag_from_image(image) ==
    LET moldish == { x \in Columns(image) :
                        /\ HsvOf(image.columns[x])[3] < 55
                        /\ HsvOf(image.columns[x])[2] < 85 }
    IN  100 * Cardinality(moldish) > 22 * image.width

\* resize_for_model(image, 224): the input tensor made of the grid.
resize_for_model(image, size) == [resized |-> image, size |-> size]

\* cv2.cvtColor(image_bgr, cv2.COLOR_BGR2GRAY) of one pixel.
GrayOf(tone) ==
    CASE tone = "black"  -> 0
      [] tone = "gray"   -> 128
      [] tone = "purple" -> 52

\* What assess_image_quality measures on a grid of one tone and a coverage:
\* the Laplacian is 0 everywhere and the gray levels do not vary.
MeasureOneTone(image, coverage) ==
    [laplacian_var |-> 0,
     gray_mean     |-> 4 * GrayOf(image.columns[1]),
     gray_std      |-> 0,
     mask_coverage |-> (1000 * coverage.area) \div coverage.pixels]

\* The classes of the trained classifiers.
FruitClasses == {"good", "mold", "overripe", "ripe", "unripe"}

LeafClasses == {"healthy", "mold"}

\* The confidences a trained classifier's best class is drawn from.
ModelConfidences == {20, 28, 50, 65}

\* KerasClassifier.predict: the class of the largest output and that output.
KerasPredictions(classes) ==
    [class_name : classes, confidence : ModelConfidences]

\* A mean of extract_features (hundredths) as the number of units it is;
\* the means of a grid of one tone are whole.
WholeMean(mean) == [k \in 1..3 |-> mean[k] \div 100]

\* HeuristicFruitClassifier.predict_from_features
HeuristicFruitClassifier(feat) ==
    LET h == feat.color_hsv_mean[1]
        s == feat.color_hsv_mean[2]
        v == feat.color_hsv_mean[3]
        is_reddish == (h <= 10) \/ (h >= 160)
    IN  IF v < 60 THEN [class_name |-> "overripe", confidence |-> 55]
        ELSE IF is_reddish /\ s > 60 THEN [class_name |-> "ripe", confidence |-> 60]
        ELSE IF s < 35 THEN [class_name |-> "unripe", confidence |-> 40]
        ELSE [class_name |-> "unripe", confidence |-> 55]

\* Mutant: a healthy leaf is reported with confidence 0.55.
HeuristicLeafClassifier_Healthy55(feat) ==
    LET s == feat.color_hsv_mean[2]
        v == feat.color_hsv_mean[3]
    IN  IF v < 70 /\ s < 80 THEN [class_name |-> "mold", confidence |-> 55]
        ELSE [class_name |-> "healthy", confidence |-> 55]

\* HeuristicLeafClassifier.predict_from_features
HeuristicLeafClassifier(feat) ==
    LET s == feat.color_hsv_mean[2]
        v == feat.color_hsv_mean[3]
    IN  IF v < 70 /\ s < 80 THEN [class_name |-> "mold", confidence |-> 55]
        ELSE [class_name |-> "healthy", confidence |-> 60]

ripeness_stage_from_fruit_class(fruit_class) ==
    IF fruit_class \in {"unripe", "ripe", "overripe"} THEN Some(fruit_class)
    ELSE IF fruit_class = "good" THEN Some("ripe")
    ELSE None

quality_from_fruit_class(fruit_class) ==
    IF fruit_class \in {"mold"} THEN Some("reject")
    ELSE IF fruit_class \in {"good", "ripe"} THEN Some("good")
    ELSE IF fruit_class \in {"unripe", "overripe"} THEN Some("ok")
    ELSE None

---------------------------------------------------------------------------
(* app.predict: the handler of POST /predict                               *)
(*                                                                         *)
(* Of the response and of the record the model keeps the fields below; the *)
(* recommendation, the time, the client and the db fields are left out.    *)

\* return jsonify({"error": message}), 400
BadRequest(message) == [status |-> 400, error |-> message]

\* An exception leaves the handler: nothing in app.py catches it, and Flask
\* answers with a 500.
InternalServerError(raised) ==
    [status |-> 500, exception |-> raised.raises, message |-> raised.message]

\* text.strip().lower() on the subjects drawn
StripLower(text) ==
    CASE text = " Fruit " -> "fruit"
      [] OTHER            -> text

\* str(body.get("subject", "fruit")).strip().lower()
SubjectOf(request_body) ==
    IF "subject" \in DOMAIN request_body
        THEN StripLower(request_body.subject)
        ELSE "fruit"

\* What a request leaves behind when it ends before the image is decoded.
EndsEarly(answer) ==
    [response |-> answer, record |-> None, grids |-> None, calls |-> None]

\* A grid handed to a call: the array and the pixels it holds at the call.
Handed(heap, ref) == [array |-> ref, pixels |-> heap[ref]]

\* Mutant: the response and the record carry the hash the features hold.
image_sha256_field_OfFeatures(image_sha256, feats) == feats.image_sha256

\* "image_sha256": image_sha256, in the response and in the record, where
\* both the request's hash and the features are at hand.
image_sha256_field(image_sha256, feats) == image_sha256

\* Mutant: the enhanced prediction is taken on a tie as well.
UsedEnhanced_OnTie(pred_original, pred_enhanced) ==
    pred_enhanced.confidence >= pred_original.confidence

\* if pred_enhanced.confidence > pred_original.confidence
UsedEnhanced(pred_original, pred_enhanced) ==
    pred_enhanced.confidence > pred_original.confidence

\* Lines 380-582 of predict: the request from the decoded image on.  env is
\* what the request finds outside itself: whether the model files exist,
\* what the trained classifier answers on each tensor, the threshold and
\* contour the segmentation computes, the pixels the enhancement computes.
PredictOnImage(request_body, img_bytes, image, env) ==
    LET subject == SubjectOf(request_body)
        image_sha256 == sha256_bytes(img_bytes)
        image_array == DecodedArray    \* the array image_bgr names
        heap0 == (DecodedArray :> image)
        feats == extract_features(heap0[image_array], env.segment)
        quality == assess_image_quality(
                      MeasureOneTone(heap0[image_array], feats.mask_coverage))
        enhancement == enhance_image_for_detection(heap0, image_array, env.enhanced)
        heap1 == enhancement.heap
        enhanced_image == enhancement.ref
        mold_heuristic == mold_flag_from_image(heap1[image_array])
        input_tensor_original == resize_for_model(heap1[image_array], 224)
        input_tensor_enhanced == resize_for_model(heap1[enhanced_image], 224)
        gate_features == [color_hsv_mean |-> WholeMean(feats.color_hsv_mean)]
        available == IF subject = "fruit" THEN env.fruit_available
                                          ELSE env.leaf_available
        used_enhanced ==
            available /\ UsedEnhanced(env.pred_original, env.pred_enhanced)
        pred == IF available
                    THEN IF used_enhanced THEN env.pred_enhanced ELSE env.pred_original
                ELSE IF subject = "fruit"
                    THEN HeuristicFruitClassifier(gate_features)
                    ELSE HeuristicLeafClassifier(gate_features)
        fruit_obj ==
            IF subject = "fruit"
                THEN [class          |-> pred.class_name,
                      confidence     |-> pred.confidence,
                      ripeness_stage |-> ripeness_stage_from_fruit_class(pred.class_name),
                      mold_present   |-> (pred.class_name = "mold") \/ mold_heuristic,
                      quality        |-> quality_from_fruit_class(pred.class_name)]
                ELSE None
        leaf_obj ==
            IF subject # "fruit"
                THEN [class        |-> pred.class_name,
                      confidence   |-> pred.confidence,
                      mold_present |-> (pred.class_name = "mold") \/ mold_heuristic]
                ELSE None
        current_confidence == pred.confidence
        bignay_detection == IsBignayImage(current_confidence, gate_features, quality)
        color == [hsv_mean |-> feats.color_hsv_mean, lab_mean |-> feats.color_lab_mean]
        size == [px_diameter   |-> feats.size_px_diameter,
                 mask_coverage |-> feats.mask_coverage]
        debug ==
            IF bignay_detection.is_bignay
                THEN [mold_heuristic        |-> mold_heuristic,
                      fruit_model_available |-> env.fruit_available,
                      leaf_model_available  |-> env.leaf_available,
                      used_enhanced_image   |-> used_enhanced]
                ELSE [mold_heuristic        |-> mold_heuristic,
                      fruit_model_available |-> env.fruit_available,
                      leaf_model_available  |-> env.leaf_available,
                      detection_reason      |-> bignay_detection.reason,
                      used_enhanced_image   |-> used_enhanced]
        answer ==
            [status        |-> 200,
             result        |-> IF bignay_detection.is_bignay THEN pred.class_name
                                                             ELSE "not_bignay",
             confidence    |-> current_confidence,
             subject       |-> subject,
             image_sha256  |-> image_sha256_field(image_sha256, feats),
             fruit         |-> IF bignay_detection.is_bignay THEN fruit_obj ELSE None,
             leaf          |-> IF bignay_detection.is_bignay THEN leaf_obj ELSE None,
             is_bignay     |-> bignay_detection.is_bignay,
             detection     |-> bignay_detection,
             image_quality |-> [overall            |-> quality.overall_quality,
                                blur_score         |-> quality.blur_score,
                                brightness_score   |-> quality.brightness_score,
                                contrast_score     |-> quality.contrast_score,
                                subject_size_score |-> quality.subject_size_score,
                                issues             |-> quality.issues,
                                recommendations    |-> quality.recommendations],
             color         |-> color,
             size          |-> size,
             debug         |-> debug]
    IN  [response |-> answer,
         record   |-> [subject      |-> subject,
                       image_sha256 |-> image_sha256_field(image_sha256, feats),
                       result       |-> answer.result,
                       confidence   |-> answer.confidence,
                       fruit        |-> fruit_obj,
                       leaf         |-> leaf_obj,
                       color        |-> color,
                       size         |-> size,
                       debug        |-> debug],
         grids    |-> heap1,
         calls    |-> [extract_features            |-> Handed(heap0, image_array),
                       assess_image_quality        |-> Handed(heap0, image_array),
                       enhance_image_for_detection |-> Handed(heap0, image_array),
                       mold_flag_from_image        |-> Handed(heap1, image_array),
                       resize_original             |-> Handed(heap1, image_array),
                       resize_enhanced             |-> Handed(heap1, enhanced_image),
                       classifier                  |->
                           IF available
                               THEN {input_tensor_original, input_tensor_enhanced}
                               ELSE {},
                       predictions                 |->
                           IF available
                               THEN [original |-> [tensor |-> input_tensor_original,
                                                   pred   |-> env.pred_original],
                                     enhanced |-> [tensor |-> input_tensor_enhanced,
                                                   pred   |-> env.pred_enhanced]]
                               ELSE None,
                       is_bignay_image             |->
                           [confidence |-> current_confidence,
                            features   |-> gate_features]]]

\* What a request can find outside itself.
Environments(request_body, image) ==
    LET classes == IF SubjectOf(request_body) = "fruit" THEN FruitClasses
                                                        ELSE LeafClasses
    IN  [fruit_available : BOOLEAN,
         leaf_available  : BOOLEAN,
         pred_original   : KerasPredictions(classes),
         pred_enhanced   : KerasPredictions(classes),
         segment         : LargestContourMasks(image),
         enhanced        : Enhancements(image)]

\* predict(): how the request can end.
predict(request_body) ==
    IF "image" \notin DOMAIN request_body
        THEN { EndsEarly(BadRequest("Missing 'image' field")) }
    ELSE IF SubjectOf(request_body) \notin {"fruit", "leaf"}
        THEN { EndsEarly(BadRequest("Invalid 'subject'. Use 'fruit' or 'leaf'.")) }
    ELSE LET img_bytes == decode_data_url(request_body.image)
         IN  IF "raises" \in DOMAIN img_bytes
                THEN { EndsEarly(InternalServerError(img_bytes)) }
             ELSE LET image == decode_image_bytes(img_bytes.returns)
                  IN  IF "raises" \in DOMAIN image
                        THEN { EndsEarly(InternalServerError(image)) }
                        ELSE { PredictOnImage(request_body, img_bytes.returns,
                                              image.returns, env) :
                                 env \in Environments(request_body, image.returns) }

\* The strings sent as the image of a request.
DataUrls ==
    { <<"A", "A", "A", "A">>,
      <<":">>,
      <<":", ",", "A">>,
      <<":", ",", "A", "A", "A", "A">>,
      <<":", ",", "A", "A", "=", "=">>,
      <<":", ",", "A", "/", "=", "=">>,
      <<":", ",", "/", "A", "=", "=">>,
      <<":", ",", "/", "/", "=", "=">>,
      <<":", ",", "A", ",", "/", "=", "=">> }

\* The JSON bodies sent: with or without an image, with or without a subject.
Bodies ==
    LET subjects == {"fruit", "leaf", " Fruit ", "seed"}
    IN  [image : DataUrls, subject : subjects] \cup [image : DataUrls]
        \cup [subject : subjects] \cup { [store_image |-> FALSE] }

---------------------------------------------------------------------------
(* The state machine: one call of the gate per request *)

GateIdle ==
    /\ confidence = 0
    /\ features = None
    /\ image_quality = None
    /\ detection = None

QualityIdle ==
    /\ measured = None
    /\ assessed = None

FeaturesIdle ==
    /\ image_bgr = None
    /\ segmented = None
    /\ extracted = None

DecodeIdle ==
    /\ data_url = None
    /\ decoded = None

RequestIdle ==
    /\ body = None
    /\ grids = None
    /\ calls = None
    /\ response = None
    /\ record = None

ProcessIdle ==
    /\ classifiers = None
    /\ loads = None
    /\ store = None
    /\ pinged = FALSE
    /\ store_calls = None
    /\ requests = None

Init ==
    /\ confidence \in Confidences
    /\ features \in [color_hsv_mean : Hues \X Saturations \X Values]
    /\ image_quality \in Qualities
    /\ detection = None
    /\ pc = "call"
    /\ QualityIdle
    /\ FeaturesIdle
    /\ DecodeIdle
    /\ RequestIdle
    /\ ProcessIdle
    /\ classified = None

\* bignay_detection = _is_bignay_image(current_confidence, features, image_quality)
Gate ==
    /\ pc = "call"
    /\ detection' = IsBignayImage(confidence, features, image_quality)
    /\ pc' = "returned"
    /\ UNCHANGED <<confidence, features, image_quality>>
    /\ UNCHANGED <<qualityVars, featureVars, decodeVars, requestVars,
                   processVars, classified>>

Next == Gate

Spec == Init /\ [][Next]_vars

---------------------------------------------------------------------------
(* The state machine of one call of assess_image_quality *)

InitQuality ==
    /\ measured \in Measurements
    /\ assessed = None
    /\ pc = "assess"
    /\ GateIdle
    /\ FeaturesIdle
    /\ DecodeIdle
    /\ RequestIdle
    /\ ProcessIdle
    /\ classified = None

\* image_quality = assess_image_quality(image_bgr, features.mask_coverage)
Assess ==
    /\ pc = "assess"
    /\ assessed' = assess_image_quality(measured)
    /\ pc' = "assessed"
    /\ UNCHANGED measured
    /\ UNCHANGED <<gateVars, featureVars, decodeVars, requestVars,
                   processVars, classified>>

NextQuality == Assess

SpecQuality == InitQuality /\ [][NextQuality]_vars

---------------------------------------------------------------------------
(* Vocabulary of the properties, stated on the inputs and the verdict *)

Returned == pc = "returned"

Hue == features.color_hsv_mean[1]

Saturation == features.color_hsv_mean[2]

InputIssues == IF image_quality = None THEN <<>> ELSE image_quality.issues

InputRecommendations ==
    IF image_quality = None THEN <<>> ELSE image_quality.recommendations

InputOverall == IF image_quality = None THEN "absent" ELSE image_quality.overall_quality

TypicalColor == Hue <= 20 \/ Hue >= 130 \/ (35 <= Hue /\ Hue <= 90)

ClearlyWrongColor ==
    \/ 20 < Hue /\ Hue < 35 /\ Saturation > 50
    \/ 90 < Hue /\ Hue < 130 /\ Saturation > 40

\* Color atypical, s > 60 and confidence < 0.65: the condition of the
\* atypical-color branch.
AtypicalCondition == ~TypicalColor /\ Saturation > 60 /\ confidence < 65

\* The first two issues of the input, comma separated.
FirstTwoIssues ==
    IF Len(InputIssues) = 1 THEN InputIssues[1]
    ELSE InputIssues[1] \o ", " \o InputIssues[2]

HasWarning == "warning" \in DOMAIN detection

NonEmptyReason == detection.reason # None /\ detection.reason[1] # ""

---------------------------------------------------------------------------
(* C1 *)

\* C1: gate monotonicity.  With hue, saturation, value and quality fixed, a
\* verdict that accepts at the confidence of the call is an accept at every
\* higher confidence.
C1_GateMonotone ==
    (Returned /\ detection.is_bignay) =>
        \A c2 \in Confidences :
            confidence < c2 => IsBignayImage(c2, features, image_quality).is_bignay

\* The lowest accept there is: below MIN, typical color, quality not good.
C1_Witness ==
    /\ Returned
    /\ detection.is_bignay
    /\ confidence < MIN_CONFIDENCE_THRESHOLD
    /\ \E c2 \in Confidences : c2 >= BIGNAY_CONFIDENCE_THRESHOLD

---------------------------------------------------------------------------
(* C2 *)

\* C2: the gate is total.  Every input yields a verdict with all five
\* fields, a confidence_level among very_low, low, medium, high and
\* color_mismatch; color_mismatch comes only with a reject, medium and high
\* only with an accept.
C2_GateTotal ==
    Returned =>
        /\ {"is_bignay", "confidence_level", "reason", "quality_issues",
            "quality_recommendations"} \subseteq DOMAIN detection
        /\ detection.is_bignay \in BOOLEAN
        /\ detection.confidence_level \in
               {"very_low", "low", "medium", "high", "color_mismatch"}
        /\ detection.confidence_level = "color_mismatch" => ~detection.is_bignay
        /\ detection.confidence_level \in {"medium", "high"} => detection.is_bignay

C2_Witness ==
    /\ Returned
    /\ detection.confidence_level = "color_mismatch"
    /\ image_quality = None

---------------------------------------------------------------------------
(* C3 *)

\* C3: confidence < 0.25 is rejected as very_low whatever the color and the
\* quality; the reason cites the first two issues when there are issues and
\* otherwise says the model confidence is very low.
C3_BelowAbsoluteMin ==
    (Returned /\ confidence < 25) =>
        /\ ~detection.is_bignay
        /\ detection.confidence_level = "very_low"
        /\ detection.reason =
               IF InputIssues # <<>>
                   THEN Some("The image does not appear to be a Bignay fruit or leaf."
                             \o " Issues: " \o FirstTwoIssues \o ".")
                   ELSE Some("The image does not appear to be a Bignay fruit or leaf."
                             \o " Model confidence is very low.")

\* More than two issues, so the reason trims the list.
C3_Witness ==
    /\ Returned
    /\ confidence < 25
    /\ Len(InputIssues) > 2
    /\ ~detection.is_bignay

---------------------------------------------------------------------------
(* C4 *)

\* C4: confidence in [0.25, 0.60) with a clearly wrong color is rejected as
\* color_mismatch with the fixed reason, the issues carried through and the
\* recommendations replaced by the single 'verify subject' one, whatever
\* the quality.
C4_ColorMismatch ==
    (Returned /\ 25 <= confidence /\ confidence < 60 /\ ClearlyWrongColor) =>
        /\ ~detection.is_bignay
        /\ detection.confidence_level = "color_mismatch"
        /\ detection.reason = Some("The image color does not match Bignay. Bignay fruits are typically dark purple/red (ripe) or green (unripe).")
        /\ detection.quality_issues = InputIssues
        /\ detection.quality_recommendations =
               <<"Make sure you're scanning a Bignay fruit or leaf">>

\* Blue/cyan at the low saturation 41, just under 0.60, with recommendations
\* of the quality to replace.
C4_Witness ==
    /\ Returned
    /\ confidence = 59
    /\ Hue > 90 /\ Saturation = 41
    /\ ClearlyWrongColor
    /\ Len(InputRecommendations) > 1
    /\ detection.confidence_level = "color_mismatch"

---------------------------------------------------------------------------
(* C5 *)

\* C5 as stated: confidence in [0.25, 0.30), typical color, quality poor or
\* acceptable: accept, very_low, no reason, recapture warning.
C5_AsStated ==
    (/\ Returned
     /\ 25 <= confidence /\ confidence < 30
     /\ TypicalColor
     /\ InputOverall \in {"poor", "acceptable"}) =>
        /\ detection.is_bignay
        /\ detection.confidence_level = "very_low"
        /\ detection.reason = None
        /\ HasWarning
        /\ detection.warning = "Results may be inaccurate. Try capturing a clearer image."

\* C5 amended: the same accept carries the fixed reason that the color
\* profile matches although the confidence is very low.
C5_LowConfidenceAccept ==
    (/\ Returned
     /\ 25 <= confidence /\ confidence < 30
     /\ TypicalColor
     /\ InputOverall \in {"poor", "acceptable"}) =>
        /\ detection.is_bignay
        /\ detection.confidence_level = "very_low"
        /\ detection.reason =
               Some("Detection confidence is very low, but color profile matches Bignay.")
        /\ HasWarning
        /\ detection.warning = "Results may be inaccurate. Try capturing a clearer image."

C5_Witness ==
    /\ Returned
    /\ 25 <= confidence /\ confidence < 30
    /\ TypicalColor
    /\ InputOverall = "poor"
    /\ detection.is_bignay

---------------------------------------------------------------------------
(* C6 *)

\* C6: confidence in [0.25, 0.30) with a color that is not clearly wrong is
\* accepted exactly when the color is typical and the quality is poor or
\* acceptable; every other case is rejected as low with a non-empty reason.
C6_BelowMin ==
    (Returned /\ 25 <= confidence /\ confidence < 30 /\ ~ClearlyWrongColor) =>
        /\ detection.is_bignay <=>
               (TypicalColor /\ InputOverall \in {"poor", "acceptable"})
        /\ ~detection.is_bignay =>
               (detection.confidence_level = "low" /\ NonEmptyReason)

\* Typical color and absent quality: rejected.
C6_Witness ==
    /\ Returned
    /\ 25 <= confidence /\ confidence < 30
    /\ TypicalColor
    /\ image_quality = None
    /\ ~detection.is_bignay
    /\ detection.confidence_level = "low"

---------------------------------------------------------------------------
(* C7 *)

\* C7: confidence in [0.30, 0.45) with a color that is not clearly wrong is
\* accepted as low with reason None; the warning names the first two issues
\* when there are issues and is the generic one otherwise.
C7_AcceptWithWarning ==
    (Returned /\ 30 <= confidence /\ confidence < 45 /\ ~ClearlyWrongColor) =>
        /\ detection.is_bignay
        /\ detection.confidence_level = "low"
        /\ detection.reason = None
        /\ HasWarning
        /\ detection.warning =
               IF InputIssues # <<>>
                   THEN "Results may be affected by: " \o FirstTwoIssues \o "."
                   ELSE "Results may be less accurate due to low confidence."

C7_Witness ==
    /\ Returned
    /\ 30 <= confidence /\ confidence < 45
    /\ ~ClearlyWrongColor
    /\ Len(InputIssues) > 2
    /\ detection.is_bignay
    /\ HasWarning

---------------------------------------------------------------------------
(* C8 *)

\* C8 as stated: confidence 0.50 and a typical color: accept, low, reason
\* absent, warning present.
C8_AsStated ==
    (Returned /\ confidence = 50 /\ TypicalColor) =>
        /\ detection.is_bignay
        /\ detection.confidence_level = "low"
        /\ detection.reason = None
        /\ HasWarning

\* C8 amended: confidence 0.50 and a typical color: accept, low, reason
\* absent, and no warning.
C8_Confidence50 ==
    (Returned /\ confidence = 50 /\ TypicalColor) =>
        /\ detection.is_bignay
        /\ detection.confidence_level = "low"
        /\ detection.reason = None
        /\ ~HasWarning

C8_Witness ==
    /\ Returned
    /\ confidence = 50
    /\ TypicalColor
    /\ InputOverall = "poor"
    /\ detection.is_bignay

---------------------------------------------------------------------------
(* C9 *)

\* What C9 says of an accepting verdict at confidence >= 0.45.
C9_Verdict ==
    /\ detection.is_bignay
    /\ detection.reason = None
    /\ detection.confidence_level =
           IF confidence >= 70 THEN "high"
           ELSE IF confidence >= 55 THEN "medium"
           ELSE "low"
    /\ detection.quality_recommendations =
           IF confidence < 60 THEN InputRecommendations ELSE <<>>

\* C9 as stated: every confidence >= 0.45 that does not take the
\* atypical-color branch is accepted, with the level and the
\* recommendations set by the confidence.
C9_AsStated ==
    (Returned /\ confidence >= 45 /\ ~AtypicalCondition) => C9_Verdict

\* C9 amended: every confidence >= 0.45 that is neither a clearly wrong
\* color under 0.60 nor the atypical-color branch is accepted, with the
\* level and the recommendations set by the confidence; every confidence
\* >= 0.70 is accepted as high with no recommendations.
C9_ConfidentDetection ==
    /\ (/\ Returned
        /\ confidence >= 45
        /\ ~(ClearlyWrongColor /\ confidence < 60)
        /\ ~AtypicalCondition) => C9_Verdict
    /\ (Returned /\ confidence >= 70) =>
           /\ detection.is_bignay
           /\ detection.confidence_level = "high"
           /\ detection.quality_recommendations = <<>>

\* Exactly 0.60, where the recommendations are dropped, with
\* recommendations to drop and a color that is atypical but pale.
C9_Witness ==
    /\ Returned
    /\ confidence = 60
    /\ ~TypicalColor
    /\ ~AtypicalCondition
    /\ InputRecommendations # <<>>
    /\ detection.confidence_level = "medium"
    /\ detection.quality_recommendations = <<>>

---------------------------------------------------------------------------
(* C10 *)

\* C10: in every verdict a warning comes only with an accept, a reject has
\* a non-empty reason, and an accept has a reason only when the confidence
\* is under 0.30.
C10_ReasonAndWarning ==
    Returned =>
        /\ HasWarning => detection.is_bignay
        /\ ~detection.is_bignay => NonEmptyReason
        /\ (detection.is_bignay /\ detection.reason # None) => confidence < 30

\* The accept that does carry a reason, and a warning.
C10_Witness ==
    /\ Returned
    /\ detection.is_bignay
    /\ detection.reason # None
    /\ HasWarning

---------------------------------------------------------------------------
(* C11 *)

\* C11: in the step that runs the gate, the verdict's quality_issues is the
\* issues list of the input quality (empty when the quality is absent);
\* its quality_recommendations differs from the input's only in the
\* color_mismatch branch, in the atypical-color branch and on accepts with
\* confidence >= 0.60; and the features and the quality handed to the gate
\* are what they were before the call.
C11_CarryThrough ==
    [][(pc = "call" /\ pc' = "returned") =>
        /\ detection'.quality_issues = InputIssues
        /\ detection'.quality_recommendations # InputRecommendations =>
               \/ detection'.confidence_level = "color_mismatch"
               \/ /\ "warning" \in DOMAIN detection'
                  /\ detection'.warning = "Color profile is atypical for Bignay"
               \/ detection'.is_bignay /\ confidence >= 60
        /\ features' = features
        /\ image_quality' = image_quality]_vars

\* A color-mismatch reject of a quality with three issues: the issues are
\* carried whole and the recommendations are replaced.
C11_Witness ==
    /\ Returned
    /\ detection.confidence_level = "color_mismatch"
    /\ Len(InputIssues) > 2
    /\ detection.quality_issues = InputIssues
    /\ detection.quality_recommendations # InputRecommendations

---------------------------------------------------------------------------
(* Vocabulary of the properties of assess_image_quality *)

Assessed == pc = "assessed"

\* A returned score, in thousandths, lies in [0, 1].
InUnitRange(score) == 0 <= score /\ score <= 1000

\* avg_score >= 0.6 and avg_score >= 0.35, on 4 * avg_score
AvgAtLeast60 == 5 * ScoreSum(measured) >= 12 * ScoreUnit

AvgAtLeast35 == 5 * ScoreSum(measured) >= 7 * ScoreUnit

IssueCount == Len(assessed.issues)

---------------------------------------------------------------------------
(* C12 *)

\* C12: whatever the image measures and whatever the mask coverage in
\* [0, 1], the four returned scores lie in [0, 1] and overall_quality is
\* one of good, acceptable, poor.
C12_ScoreBounds ==
    Assessed =>
        /\ InUnitRange(assessed.blur_score)
        /\ InUnitRange(assessed.brightness_score)
        /\ InUnitRange(assessed.contrast_score)
        /\ InUnitRange(assessed.subject_size_score)
        /\ assessed.overall_quality \in {"good", "acceptable", "poor"}

\* A Laplacian variance over 500, where the cap of the blur score acts, on
\* an image with no foreground at all.
C12_Witness ==
    /\ Assessed
    /\ measured.laplacian_var > 500
    /\ assessed.blur_score = 1000
    /\ measured.mask_coverage = 0
    /\ assessed.subject_size_score = 0

---------------------------------------------------------------------------
(* C13 *)

\* C13: the tier is good iff avg_score >= 0.6 with at most 1 issue,
\* otherwise acceptable iff avg_score >= 0.35 or at most 2 issues,
\* otherwise poor; so poor is returned exactly when avg_score < 0.35 with
\* at least 3 issues, and avg_score < 0.35 with at most 2 issues is
\* acceptable.
C13_Tier ==
    Assessed =>
        /\ assessed.overall_quality =
               IF AvgAtLeast60 /\ IssueCount <= 1 THEN "good"
               ELSE IF AvgAtLeast35 \/ IssueCount <= 2 THEN "acceptable"
               ELSE "poor"
        /\ assessed.overall_quality = "poor" <=> (~AvgAtLeast35 /\ IssueCount >= 3)
        /\ (~AvgAtLeast35 /\ IssueCount <= 2) => assessed.overall_quality = "acceptable"

\* A dark image of a tiny subject: avg_score under 0.35 with two issues.
C13_Witness ==
    /\ Assessed
    /\ ~AvgAtLeast35
    /\ IssueCount = 2
    /\ assessed.overall_quality = "acceptable"

---------------------------------------------------------------------------
(* Feature extraction of one decoded image *)

InitFeatures ==
    /\ image_bgr \in Images
    /\ segmented = None
    /\ extracted = None
    /\ pc = "extract"
    /\ GateIdle
    /\ QualityIdle
    /\ DecodeIdle
    /\ RequestIdle
    /\ ProcessIdle
    /\ classified = None

\* features = extract_features(image_bgr)
ExtractFeatures ==
    /\ pc = "extract"
    /\ \E segment \in LargestContourMasks(image_bgr) :
        /\ segmented' = segment
        /\ extracted' = extract_features(image_bgr, segment)
    /\ pc' = "extracted"
    /\ UNCHANGED image_bgr
    /\ UNCHANGED <<gateVars, qualityVars, decodeVars, requestVars,
                   processVars, classified>>

NextFeatures == ExtractFeatures

SpecFeatures == InitFeatures /\ [][NextFeatures]_vars

---------------------------------------------------------------------------
(* Claims about the segmentation and the features *)

Extracted == pc = "extracted"

NoContour == segmented.contours = {}

\* coverage > 0.01, coverage being area / pixels
CoverageOverOnePercent ==
    100 * segmented.coverage.area > segmented.coverage.pixels

WholeImage == Columns(image_bgr)

MeansTakenOver(cols) ==
    /\ extracted.color_hsv_mean = PixelMean(image_bgr, cols, "hsv")
    /\ extracted.color_lab_mean = PixelMean(image_bgr, cols, "lab")

UniformGray == \A x \in Columns(image_bgr) : image_bgr.columns[x] = "gray"

\* C14: extract_features takes the HSV and Lab means over the masked pixels
\* and sets size_px_diameter exactly when coverage > 0.01; otherwise (the
\* no-contour case included) the means are taken over every pixel and
\* size_px_diameter is None.  The means are always numbers: the pixel set
\* averaged is never empty.
C14_FeatureFallback ==
    Extracted =>
        /\ CoverageOverOnePercent =>
            /\ MeansTakenOver(segmented.mask)
            /\ extracted.size_px_diameter # None
        /\ ~CoverageOverOnePercent =>
            /\ MeansTakenOver(WholeImage)
            /\ extracted.size_px_diameter = None
        /\ NoContour => ~CoverageOverOnePercent
        /\ \A k \in 1..3 : extracted.color_hsv_mean[k] # NaN
        /\ \A k \in 1..3 : extracted.color_lab_mean[k] # NaN

\* A blob was found that covers no more than a hundredth of the image, its
\* colour differs from the image's, and the means are the whole image's.
C14_Witness ==
    /\ Extracted
    /\ ~NoContour
    /\ segmented.coverage.area > 0
    /\ ~CoverageOverOnePercent
    /\ PixelMean(image_bgr, segmented.mask, "hsv") # PixelMean(image_bgr, WholeImage, "hsv")
    /\ extracted.color_hsv_mean = PixelMean(image_bgr, WholeImage, "hsv")
    /\ extracted.size_px_diameter = None

\* C15: _largest_contour_mask returns a coverage between 0.0 and 1.0 and a
\* mask of the image's height and width; the coverage is 0.0 exactly when
\* no contour is detected, and then the mask is all zero.
C15_CoverageZeroIffNoContour ==
    Extracted =>
        /\ 0 <= segmented.coverage.area
        /\ segmented.coverage.area <= segmented.coverage.pixels
        /\ segmented.height = image_bgr.height
        /\ segmented.width = image_bgr.width
        /\ (segmented.coverage.area = 0) <=> NoContour
        /\ NoContour => segmented.mask = {}

\* C16: on an image of one mid-gray tone the segmentation finds no contour:
\* the coverage is 0.0, the features are the whole image's and
\* size_px_diameter is None.
C16_UniformGrayNoContour ==
    (Extracted /\ UniformGray) =>
        /\ NoContour
        /\ segmented.coverage.area = 0
        /\ MeansTakenOver(WholeImage)
        /\ extracted.size_px_diameter = None

---------------------------------------------------------------------------
(* One call of decode_data_url *)

InitDecode ==
    /\ data_url \in Strings
    /\ decoded = None
    /\ pc = "decode"
    /\ GateIdle
    /\ QualityIdle
    /\ FeaturesIdle
    /\ RequestIdle
    /\ ProcessIdle
    /\ classified = None

\* img_bytes = decode_data_url(data_url)
DecodeDataUrl ==
    /\ pc = "decode"
    /\ decoded' = decode_data_url(data_url)
    /\ pc' = "decoded"
    /\ UNCHANGED data_url
    /\ UNCHANGED <<gateVars, qualityVars, featureVars, requestVars,
                   processVars, classified>>

NextDecode == DecodeDataUrl

SpecDecode == InitDecode /\ [][NextDecode]_vars

---------------------------------------------------------------------------
(* Claims about decode_data_url *)

Decoded == pc = "decoded"

HasComma == \E i \in 1..Len(data_url) : data_url[i] = ","

FirstComma ==
    CHOOSE i \in 1..Len(data_url) :
        data_url[i] = "," /\ \A j \in 1..(i - 1) : data_url[j] # ","

AfterFirstComma == SubSeq(data_url, FirstComma + 1, Len(data_url))

\* C17: decode_data_url raises an error, and returns nothing, for every
\* string without a comma; for a string with a comma it base64-decodes
\* exactly the text after the first comma, later commas included.
C17_FirstComma ==
    Decoded =>
        /\ ~HasComma =>
            /\ "raises" \in DOMAIN decoded
            /\ "returns" \notin DOMAIN decoded
            /\ decoded.raises = "ValueError"
            /\ decoded.message = "Invalid data URL"
        /\ HasComma => decoded = b64decode(AfterFirstComma)

\* A string with two commas whose payload decodes to bytes, while the text
\* after its last comma does not.
C17_Witness ==
    /\ Decoded
    /\ HasComma
    /\ Contains(AfterFirstComma, ",")
    /\ "returns" \in DOMAIN decoded
    /\ decoded.returns # <<>>
    /\ "raises" \in DOMAIN b64decode(RSplitOnce(data_url, ",", Len(data_url))[2])

---------------------------------------------------------------------------
(* One POST /predict *)

InitRequest ==
    /\ body \in Bodies
    /\ grids = None
    /\ calls = None
    /\ response = None
    /\ record = None
    /\ pc = "request"
    /\ GateIdle
    /\ QualityIdle
    /\ FeaturesIdle
    /\ DecodeIdle
    /\ ProcessIdle
    /\ classified = None

Predict ==
    /\ pc = "request"
    /\ \E end \in predict(body) :
        /\ response' = end.response
        /\ record' = end.record
        /\ grids' = end.grids
        /\ calls' = end.calls
    /\ pc' = "responded"
    /\ UNCHANGED body
    /\ UNCHANGED <<gateVars, qualityVars, featureVars, decodeVars,
                   processVars, classified>>

NextRequest == Predict

SpecRequest == InitRequest /\ [][NextRequest]_vars

---------------------------------------------------------------------------
(* Claims about POST /predict *)

Responded == pc = "responded"

Succeeded == Responded /\ response.status = 200

HasImage == "image" \in DOMAIN body

ValidSubject ==
    \/ "subject" \notin DOMAIN body
    \/ body.subject \in {"fruit", "leaf", " Fruit "}

\* The image field is a string without a comma.
MalformedDataUrl == HasImage /\ \A i \in 1..Len(body.image) : body.image[i] # ","

\* The bytes of the upload: the base64 text after the first comma, decoded.
UploadText ==
    LET first == CHOOSE i \in 1..Len(body.image) :
                    body.image[i] = "," /\ \A j \in 1..(i - 1) : body.image[j] # ","
    IN  SubSeq(body.image, first + 1, Len(body.image))

UploadBytes == b64decode(UploadText).returns

\* The image field decodes to bytes that are not an image.
CorruptImageData ==
    /\ HasImage
    /\ ~MalformedDataUrl
    /\ "returns" \in DOMAIN b64decode(UploadText)
    /\ \A f \in ImageFiles : f.bytes # UploadBytes

\* The grid the upload decodes to.
OriginalGrid == (CHOOSE f \in ImageFiles : f.bytes = UploadBytes).image

HandedOriginal(call) ==
    /\ call.array = DecodedArray
    /\ call.pixels = OriginalGrid

\* C18: a data URL without a comma, or bytes that do not decode as an image,
\* get a 4xx response with an error message, never a 5xx, and the request
\* does not reach the feature extraction.
C18_ClientError ==
    (Responded /\ ValidSubject /\ (MalformedDataUrl \/ CorruptImageData)) =>
        /\ response.status \in 400..499
        /\ "error" \in DOMAIN response
        /\ calls = None

\* C19: during a request the decoded grid is never modified: the
\* enhancement returns another array of the same height and width and
\* leaves the one it was handed as it was; the feature extraction, the
\* quality assessment and the mold heuristic are handed the original grid,
\* and the enhanced grid goes nowhere but into the classifier's input.
C19_OriginalUntouched ==
    Succeeded =>
        /\ grids[DecodedArray] = OriginalGrid
        /\ HandedOriginal(calls.extract_features)
        /\ HandedOriginal(calls.assess_image_quality)
        /\ HandedOriginal(calls.enhance_image_for_detection)
        /\ HandedOriginal(calls.mold_flag_from_image)
        /\ HandedOriginal(calls.resize_original)
        /\ calls.resize_enhanced.array # DecodedArray
        /\ calls.resize_enhanced.pixels = grids[calls.resize_enhanced.array]
        /\ calls.resize_enhanced.pixels.height = OriginalGrid.height
        /\ calls.resize_enhanced.pixels.width = OriginalGrid.width
        /\ calls.classifier \subseteq
             { resize_for_model(OriginalGrid, 224),
               resize_for_model(calls.resize_enhanced.pixels, 224) }

\* The enhancement changed the pixels, and the classifier ran on both grids.
C19_Witness ==
    /\ Succeeded
    /\ grids[EnhancedArray] # OriginalGrid
    /\ grids[DecodedArray] = OriginalGrid
    /\ Cardinality(calls.classifier) = 2
    /\ response.debug.used_enhanced_image

\* C20: the image_sha256 of the response and of the record is the SHA-256
\* of the uploaded bytes; the features' hash, of the re-encoded grid, is
\* another value and is in neither.
C20_HashOfUpload ==
    Succeeded =>
        /\ response.image_sha256 = sha256_bytes(UploadBytes)
        /\ record.image_sha256 = sha256_bytes(UploadBytes)
        /\ response.image_sha256 # sha256_bytes(imencode_jpg(OriginalGrid))
        /\ record.image_sha256 # sha256_bytes(imencode_jpg(OriginalGrid))
        /\ DOMAIN response.color = {"hsv_mean", "lab_mean"}
        /\ DOMAIN response.size = {"px_diameter", "mask_coverage"}
        /\ record.color = response.color
        /\ record.size = response.size

\* A request that was answered and recorded, on an upload with a comma in
\* its payload.
C20_Witness ==
    /\ Succeeded
    /\ record # None
    /\ Len(UploadBytes) = 1
    /\ \E i \in 1..Len(UploadText) : UploadText[i] = ","
    /\ response.image_sha256 = [sha256 |-> UploadBytes]

---------------------------------------------------------------------------
(* The subject-size score *)

\* C22: the subject-size score is 1.0 for a coverage in [0.05, 0.50] and
\* coverage / 0.05 below 0.05; above 0.50 it decays linearly, by 2 per unit
\* of coverage, down to a floor of 0.3 that it keeps from coverage 0.85 on;
\* so a score under 0.3 is given only by a coverage below 0.015.
C22_SubjectSizeScore ==
    pc = "assessed" =>
        LET coverage == measured.mask_coverage
            score    == assessed.subject_size_score
        IN  /\ (50 <= coverage /\ coverage <= 500) => score = 1000
            /\ coverage < 50 => score = 20 * coverage
            /\ (500 < coverage /\ coverage < 850) =>
                   score = 1000 - 2 * (coverage - 500)
            /\ coverage > 500 => score >= 300
            /\ coverage >= 850 => score = 300
            /\ score < 300 => coverage < 15

\* A score under 0.3 (coverage 0.014), and the floor held beyond 0.85.
C22_Witness ==
    /\ pc = "assessed"
    /\ \/ measured.mask_coverage = 14 /\ assessed.subject_size_score = 280
       \/ measured.mask_coverage = 1000 /\ assessed.subject_size_score = 300

---------------------------------------------------------------------------
(* The atypical-color branch of the gate *)

\* The hue is outside every typical range: 20 < h < 35 or 90 < h < 130.
AtypicalHue ==
    LET h == features.color_hsv_mean[1]
    IN  (20 < h /\ h < 35) \/ (90 < h /\ h < 130)

\* The gate returned from the atypical-color branch of step 5.
AtypicalBranch ==
    /\ detection.is_bignay
    /\ detection.confidence_level = "medium"
    /\ "warning" \in DOMAIN detection
    /\ detection.warning = "Color profile is atypical for Bignay"

ColorMismatch ==
    ~detection.is_bignay /\ detection.confidence_level = "color_mismatch"

\* C23: an atypical hue with saturation > 60 is a clearly wrong color, so
\* the atypical-color branch is taken only for 0.60 <= confidence < 0.65;
\* for 0.45 <= confidence < 0.60 an atypical color with s > 60 is rejected
\* as color_mismatch; and no typical color is rejected as color_mismatch.
C23_AtypicalBranch ==
    pc = "returned" =>
        LET s == features.color_hsv_mean[2]
        IN  /\ AtypicalBranch => (60 <= confidence /\ confidence < 65)
            /\ AtypicalBranch => (AtypicalHue /\ s > 60)
            /\ (45 <= confidence /\ confidence < 60 /\ AtypicalHue /\ s > 60)
                   => ColorMismatch
            /\ ColorMismatch => AtypicalHue

\* The branch taken at confidence 0.64, and the reject at 0.59, on the same
\* orange hue with saturation 61.
C23_Witness ==
    /\ pc = "returned"
    /\ features.color_hsv_mean[1] = 21
    /\ features.color_hsv_mean[2] = 61
    /\ \/ confidence = 64 /\ AtypicalBranch
       \/ confidence = 59 /\ ColorMismatch

---------------------------------------------------------------------------
(* predict() without a trained model: the fallback classifier of the       *)
(* subject, then the gate on its confidence                                *)

\* Colors on both sides of every threshold of the fallback classifiers
\* (hue 10 and 160, saturation 35, 60 and 80, value 60 and 70) and of the gate.
FallbackHues == Hues \cup {10, 11, 159, 160}

FallbackSaturations == Saturations \cup {34, 35, 79, 80}

FallbackValues == {59, 60, 69, 70}

InitFallback ==
    /\ classified \in [subject : {"fruit", "leaf"}]
    /\ features \in [color_hsv_mean :
                        FallbackHues \X FallbackSaturations \X FallbackValues]
    /\ image_quality \in Qualities
    /\ confidence = 0
    /\ detection = None
    /\ pc = "classify"
    /\ QualityIdle
    /\ FeaturesIdle
    /\ DecodeIdle
    /\ RequestIdle
    /\ ProcessIdle

\* fruit_pred = fruit_fallback.predict_from_features(features), or leaf_pred
\* from leaf_fallback; current_confidence is its confidence; then the gate
FallbackPredict ==
    /\ pc = "classify"
    /\ LET pred == IF classified.subject = "fruit"
                   THEN HeuristicFruitClassifier(features)
                   ELSE HeuristicLeafClassifier(features)
       IN  /\ classified' = [subject |-> classified.subject, pred |-> pred]
           /\ confidence' = pred.confidence
           /\ detection' = IsBignayImage(pred.confidence, features, image_quality)
    /\ pc' = "returned"
    /\ UNCHANGED <<features, image_quality>>
    /\ UNCHANGED <<qualityVars, featureVars, decodeVars, requestVars,
                   processVars>>

NextFallback == FallbackPredict

SpecFallback == InitFallback /\ [][NextFallback]_vars

\* C24: with the fallback classifiers the confidence is 0.40, 0.55 or 0.60;
\* the gate then rejects only as color_mismatch, never returns the levels
\* very_low or high, and accepts every leaf classified healthy (0.60).
C24_FallbackVerdicts ==
    pc = "returned" =>
        /\ confidence \in {40, 55, 60}
        /\ ~detection.is_bignay => detection.confidence_level = "color_mismatch"
        /\ detection.confidence_level \notin {"very_low", "high"}
        /\ (classified.subject = "leaf" /\ classified.pred.class_name = "healthy")
               => (confidence = 60 /\ detection.is_bignay)

\* A healthy leaf of a clearly wrong color (blue, saturation 61) accepted,
\* and a fruit of the same color rejected as color_mismatch at 0.55.
C24_Witness ==
    /\ pc = "returned"
    /\ features.color_hsv_mean[1] = 91
    /\ features.color_hsv_mean[2] = 61
    /\ \/ /\ classified.subject = "leaf"
          /\ classified.pred.class_name = "healthy"
          /\ detection.is_bignay
       \/ /\ classified.subject = "fruit"
          /\ confidence = 55
          /\ ColorMismatch

---------------------------------------------------------------------------
(* predict(), lines 380-383: the features of the image, then its quality   *)
(* on the mask coverage the features carry                                 *)

TallHeight == 4

\* The grids drawn: the wide grids with a small blob at the left edge, and
\* grids of one tone up to TallHeight rows, whose one contour covers more
\* than 0.60 of the tall ones.
SubjectImages ==
    { image \in Images : image.width = WideWidth }
    \cup
    { StripedImage(hh, ww, bg, bg, 1, ww) :
        hh \in 1..TallHeight, ww \in Widths, bg \in Tones }

\* What the second argument of assess_image_quality is measured as: the
\* coverage fraction in thousandths.
CoverageInThousandths(coverage) == (1000 * coverage.area) \div coverage.pixels

\* Sharpness, brightness and contrast of the image, which the size checks
\* do not read: a sample of the measurements one image can give.
SubjectStats ==
    { [laplacian_var |-> m.laplacian_var, gray_mean |-> m.gray_mean,
       gray_std |-> m.gray_std] :
        m \in { n \in Measurements : /\ n.laplacian_var \in {0, 2000}
                                     /\ n.gray_mean \in {0, 510, 1020}
                                     /\ n.gray_std \in {0, 800} } }

InitSubject ==
    /\ image_bgr \in SubjectImages
    /\ segmented = None
    /\ extracted = None
    /\ measured = None
    /\ assessed = None
    /\ pc = "analyse"
    /\ GateIdle
    /\ DecodeIdle
    /\ RequestIdle
    /\ ProcessIdle
    /\ classified = None

\* features = extract_features(image_bgr)
\* image_quality = assess_image_quality(image_bgr, features.mask_coverage)
ExtractAndAssess ==
    /\ pc = "analyse"
    /\ \E segment \in LargestContourMasks(image_bgr) :
        \E stats \in SubjectStats :
            LET feats == extract_features(image_bgr, segment)
                m == [laplacian_var |-> stats.laplacian_var,
                      gray_mean     |-> stats.gray_mean,
                      gray_std      |-> stats.gray_std,
                      mask_coverage |-> CoverageInThousandths(feats.mask_coverage)]
            IN  /\ segmented' = segment
                /\ extracted' = feats
                /\ measured' = m
                /\ assessed' = assess_image_quality(m)
    /\ pc' = "analysed"
    /\ UNCHANGED image_bgr
    /\ UNCHANGED <<gateVars, decodeVars, requestVars, processVars, classified>>

NextSubject == ExtractAndAssess

SpecSubject == InitSubject /\ [][NextSubject]_vars

HasIssue(text) == \E i \in DOMAIN assessed.issues : assessed.issues[i] = text

\* C25: when extract_features falls back to the whole image (no
\* size_px_diameter, that is coverage <= 0.01), the quality assessed in the
\* same request has the issue "Subject appears too far or small" and a
\* subject_size_score of at most 0.2; and "Subject is too close" is never
\* an issue of a request without a size_px_diameter.
C25_FallbackIsTooFar ==
    pc = "analysed" =>
        LET coverage == extracted.mask_coverage
            absent   == extracted.size_px_diameter = None
        IN  /\ absent <=> 100 * coverage.area <= coverage.pixels
            /\ absent => /\ HasIssue("Subject appears too far or small")
                         /\ assessed.subject_size_score <= 200
            /\ HasIssue("Subject is too close") => ~absent

\* The fallback on a contour that covers exactly 0.01 of the image.
C25_Witness ==
    /\ pc = "analysed"
    /\ extracted.size_px_diameter = None
    /\ extracted.mask_coverage.area > 0
    /\ 100 * extracted.mask_coverage.area = extracted.mask_coverage.pixels
    /\ HasIssue("Subject appears too far or small")
    /\ assessed.subject_size_score = 200

---------------------------------------------------------------------------
(* The issues and the recommendations of one assessment *)

\* The recommendation the code appends together with each issue.
RecommendationFor(issue) ==
    CASE issue = "Image appears blurry" ->
            "Hold the camera steady or tap to focus"
      [] issue = "Image is slightly out of focus" ->
            "Try focusing on the fruit/leaf"
      [] issue = "Image is too dark" ->
            "Move to better lighting or use flash"
      [] issue = "Image is overexposed" ->
            "Reduce direct light or move to shade"
      [] issue = "Low contrast detected" ->
            "Ensure the fruit/leaf stands out from background"
      [] issue = "Subject appears too far or small" ->
            "Move closer to the Bignay fruit or leaf"
      [] issue = "Subject is too close" ->
            "Move back slightly to capture the whole fruit/leaf"
      [] OTHER -> "none"

\* C26: assess_image_quality returns issues and recommendations of equal
\* length, at most 4, the i-th recommendation being the one of the i-th
\* issue; each check gives at most one issue, so no issue occurs twice and
\* the two issues of one check never occur together.
C26_PairedLists ==
    pc = "assessed" =>
        LET issues          == assessed.issues
            recommendations == assessed.recommendations
        IN  /\ Len(issues) = Len(recommendations)
            /\ Len(issues) <= 4
            /\ \A i \in 1..Len(issues) :
                   recommendations[i] = RecommendationFor(issues[i])
            /\ \A i \in 1..Len(issues) : \A j \in 1..Len(issues) :
                   issues[i] = issues[j] => i = j
            /\ ~(HasIssue("Image appears blurry")
                    /\ HasIssue("Image is slightly out of focus"))
            /\ ~(HasIssue("Image is too dark") /\ HasIssue("Image is overexposed"))
            /\ ~(HasIssue("Subject appears too far or small")
                    /\ HasIssue("Subject is too close"))

\* All four checks report: blurry, too dark, low contrast, too far.
C26_Witness ==
    /\ pc = "assessed"
    /\ Len(assessed.issues) = 4
    /\ Len(assessed.recommendations) = 4
    /\ HasIssue("Image appears blurry")
    /\ HasIssue("Subject appears too far or small")

---------------------------------------------------------------------------
(* The objects app.py constructs once at import and every request uses.    *)
(* The server handles each request on a thread of its own, so the steps    *)
(* of two requests interleave at every read and write of these objects.    *)

MaxThreads == 2

Threads == 1..MaxThreads

\* KerasClassifier.__init__: the path of the model file and no model yet
KerasClassifier(exists) ==
    [_model_path |-> [exists |-> exists], _model |-> None]

\* KerasClassifier.available: self._model_path.exists()
available(self) == self._model_path.exists

\* what tf.keras.models.load_model returns
load_model(path) == Some("keras model")

\* PredictionStore.__init__: enabled by a non-empty URI, not yet connected
PredictionStore(mongodb_uri) ==
    [_enabled    |-> mongodb_uri # None /\ mongodb_uri # Some(""),
     _client     |-> None,
     _collection |-> None]

\* MongoClient(self._mongodb_uri, serverSelectionTimeoutMS=2000)
MongoClient == Some("client")

\* self._client[self._db_name][self._collection_name]
CollectionOf(client) == Some("collection")

MongoUris == {None, Some(""), Some("mongodb://db")}

\* fruit_model for the subject "fruit", leaf_model for any other
ClassifierFor(subject) ==
    IF subject = "fruit" THEN "fruit_model" ELSE "leaf_model"

\* A request at the classifier selection of predict(), nothing accessed yet
NewRequest(subject) ==
    [subject |-> subject, pc |-> "select", predicts |-> 0,
     reads |-> {}, writes |-> {}]

\* The request of thread t moves to pc `to` having read and written the
\* given attributes of the module-level objects
Step(t, to, read, written) ==
    [requests EXCEPT ![t].pc = to,
                     ![t].reads = @ \cup read,
                     ![t].writes = @ \cup written]

ModelOf(t) == ClassifierFor(requests[t].subject)

ModelAttr(t) == ModelOf(t) \o "._model"

---------------------------------------------------------------------------
(* Concurrent POST /predict requests: what each one does to the shared     *)
(* objects, from the classifier selection to the insert into the store.    *)
(* Everything else a request computes is local to its call.                *)

ProcessOnly ==
    <<gateVars, qualityVars, featureVars, decodeVars, requestVars,
      classified, pc>>

InitProcess ==
    /\ classifiers \in [{"fruit_model", "leaf_model"} ->
                            {KerasClassifier(e) : e \in BOOLEAN}]
    /\ loads = [name \in {"fruit_model", "leaf_model"} |-> 0]
    /\ store \in {PredictionStore(uri) : uri \in MongoUris}
    /\ pinged = FALSE
    /\ store_calls = <<>>
    /\ requests \in [Threads -> {NewRequest(s) : s \in {"fruit", "leaf"}}]
    /\ pc = "serving"
    /\ classified = None
    /\ GateIdle
    /\ QualityIdle
    /\ FeaturesIdle
    /\ DecodeIdle
    /\ RequestIdle

\* if fruit_model.available(): two predict calls; else the fallback
SelectClassifier(t) ==
    /\ requests[t].pc = "select"
    /\ requests' =
         IF available(classifiers[ModelOf(t)])
         THEN [Step(t, "load", {ModelOf(t) \o "._model_path"}, {})
                 EXCEPT ![t].predicts = 2]
         ELSE Step(t, "persist", {ModelOf(t) \o "._model_path"}, {})
    /\ UNCHANGED <<classifiers, loads, store, pinged, store_calls>>
    /\ UNCHANGED ProcessOnly

\* _load: if self._model is not None: return
LoadCheck(t) ==
    /\ requests[t].pc = "load"
    /\ requests' =
         IF classifiers[ModelOf(t)]._model # None
         THEN Step(t, "infer", {ModelAttr(t)}, {})
         ELSE Step(t, "load_model", {ModelAttr(t)}, {})
    /\ UNCHANGED <<classifiers, loads, store, pinged, store_calls>>
    /\ UNCHANGED ProcessOnly

\* _load: self._model = tf.keras.models.load_model(str(self._model_path))
LoadModel(t) ==
    /\ requests[t].pc = "load_model"
    /\ classifiers' =
         [classifiers EXCEPT ![ModelOf(t)]._model = load_model(@)]
    /\ loads' = [loads EXCEPT ![ModelOf(t)] = @ + 1]
    /\ requests' = Step(t, "infer", {ModelOf(t) \o "._model_path"},
                        {ModelAttr(t)})
    /\ UNCHANGED <<store, pinged, store_calls>>
    /\ UNCHANGED ProcessOnly

\* predict: self._model.predict(input_tensor, verbose=0), for the original
\* tensor and then for the enhanced one
Infer(t) ==
    /\ requests[t].pc = "infer"
    /\ requests' =
         [Step(t, IF requests[t].predicts = 1 THEN "persist" ELSE "load",
               {ModelAttr(t)}, {})
            EXCEPT ![t].predicts = @ - 1]
    /\ UNCHANGED <<classifiers, loads, store, pinged, store_calls>>
    /\ UNCHANGED ProcessOnly

\* store.insert_prediction: if not self._enabled: return None
InsertPrediction(t) ==
    /\ requests[t].pc = "persist"
    /\ requests' = Step(t, IF store._enabled THEN "connect" ELSE "done",
                        {"store._enabled"}, {})
    /\ UNCHANGED <<classifiers, loads, store, pinged, store_calls>>
    /\ UNCHANGED ProcessOnly

\* connect: if self._collection is not None: return
ConnectCheck(t) ==
    /\ requests[t].pc = "connect"
    /\ requests' =
         IF store._collection # None
         THEN Step(t, "insert_one", {"store._collection"}, {})
         ELSE Step(t, "client", {"store._collection"}, {})
    /\ UNCHANGED <<classifiers, loads, store, pinged, store_calls>>
    /\ UNCHANGED ProcessOnly

\* connect: self._client = MongoClient(...)
ConnectClient(t) ==
    /\ requests[t].pc = "client"
    /\ store' = [store EXCEPT !._client = MongoClient]
    /\ requests' = Step(t, "collection", {}, {"store._client"})
    /\ UNCHANGED <<classifiers, loads, pinged, store_calls>>
    /\ UNCHANGED ProcessOnly

\* connect: self._collection = self._client[db_name][collection_name]
ConnectCollection(t) ==
    /\ requests[t].pc = "collection"
    /\ store' = [store EXCEPT !._collection = CollectionOf(store._client)]
    /\ requests' = Step(t, "ping", {"store._client"}, {"store._collection"})
    /\ UNCHANGED <<classifiers, loads, pinged, store_calls>>
    /\ UNCHANGED ProcessOnly

\* connect: self._client.admin.command("ping"), which raises when the
\* server does not answer; predict() catches what insert_prediction raises
ConnectPing(t) ==
    /\ requests[t].pc = "ping"
    /\ \E up \in BOOLEAN :
        /\ pinged' = (pinged \/ up)
        /\ requests' = Step(t, IF up THEN "insert_one" ELSE "done",
                            {"store._client"}, {})
    /\ UNCHANGED <<classifiers, loads, store, store_calls>>
    /\ UNCHANGED ProcessOnly

\* insert_prediction: self._collection.insert_one(doc)
InsertOne(t) ==
    /\ requests[t].pc = "insert_one"
    /\ requests' = Step(t, "done", {"store._collection"}, {})
    /\ UNCHANGED <<classifiers, loads, store, pinged, store_calls>>
    /\ UNCHANGED ProcessOnly

NextProcess ==
    \E t \in Threads :
        \/ SelectClassifier(t)
        \/ LoadCheck(t)
        \/ LoadModel(t)
        \/ Infer(t)
        \/ InsertPrediction(t)
        \/ ConnectCheck(t)
        \/ ConnectClient(t)
        \/ ConnectCollection(t)
        \/ ConnectPing(t)
        \/ InsertOne(t)

SpecProcess == InitProcess /\ [][NextProcess]_vars

\* C21: concurrent /predict requests share no mutable state: no request
\* reads or writes an attribute that another request writes.
C21_NoSharedMutableState ==
    \A t \in Threads : \A u \in Threads \ {t} :
        (requests[t].reads \cup requests[t].writes)
            \cap requests[u].writes = {}

\* C27: the model file of one KerasClassifier is loaded at most once,
\* whatever the sequence and the interleaving of the predict calls.
C27_LoadedAtMostOnce ==
    \A name \in DOMAIN loads : loads[name] <= 1

---------------------------------------------------------------------------
(* db.PredictionStore: calls made one after another on the store, the      *)
(* server answering or not during each call                                *)

MaxCalls == 3

\* DbStatus(enabled, ok, message)
DbStatus(enabled, ok, message) ==
    [enabled |-> enabled, ok |-> ok, message |-> message]

ServerSelectionTimeoutError ==
    Raises("ServerSelectionTimeoutError", "No servers found yet")

\* PredictionStore.connect, when the server answers (up) or not: the store
\* it leaves, how it ends, and whether its ping succeeded
connect(self, up) ==
    IF ~self._enabled
        THEN [self |-> self, outcome |-> Returns(None), ping_ok |-> FALSE]
    ELSE IF self._collection # None
        THEN [self |-> self, outcome |-> Returns(None), ping_ok |-> FALSE]
    ELSE LET client == MongoClient
             assigned == [self EXCEPT !._client = client,
                                      !._collection = CollectionOf(client)]
         IN  [self    |-> assigned,
              outcome |-> IF up THEN Returns(None) ELSE ServerSelectionTimeoutError,
              ping_ok |-> up]

\* PredictionStore.status
status(self, up) ==
    IF ~self._enabled
        THEN [self    |-> self,
              outcome |-> Returns(DbStatus(FALSE, TRUE,
                              "MongoDB disabled (MONGODB_URI not set)")),
              ping_ok |-> FALSE]
    ELSE LET connected == connect(self, up)
         IN  [self    |-> connected.self,
              outcome |->
                  IF "raises" \in DOMAIN connected.outcome
                      THEN Returns(DbStatus(TRUE, FALSE,
                               "MongoDB error: " \o connected.outcome.message))
                      ELSE Returns(DbStatus(TRUE, TRUE, "MongoDB connected")),
              ping_ok |-> connected.ping_ok]

\* PredictionStore.insert_prediction: the id of the inserted document
insert_prediction(self, up) ==
    IF ~self._enabled
        THEN [self |-> self, outcome |-> Returns(None), ping_ok |-> FALSE]
    ELSE LET connected == connect(self, up)
         IN  [self    |-> connected.self,
              outcome |->
                  IF "raises" \in DOMAIN connected.outcome THEN connected.outcome
                  ELSE IF up THEN Returns(Some("inserted_id"))
                  ELSE ServerSelectionTimeoutError,
              ping_ok |-> connected.ping_ok]

\* PredictionStore.list_predictions: the documents found
list_predictions(self, up) ==
    IF ~self._enabled
        THEN [self |-> self, outcome |-> Returns(<<>>), ping_ok |-> FALSE]
    ELSE LET connected == connect(self, up)
         IN  [self    |-> connected.self,
              outcome |->
                  IF "raises" \in DOMAIN connected.outcome THEN connected.outcome
                  ELSE IF up THEN Returns(<<"items">>)
                  ELSE ServerSelectionTimeoutError,
              ping_ok |-> connected.ping_ok]

InitStore ==
    /\ store \in {PredictionStore(uri) : uri \in MongoUris}
    /\ pinged = FALSE
    /\ store_calls = <<>>
    /\ classifiers = None
    /\ loads = None
    /\ requests = None
    /\ classified = None
    /\ pc = "store"
    /\ GateIdle
    /\ QualityIdle
    /\ FeaturesIdle
    /\ DecodeIdle
    /\ RequestIdle

\* GET /health: db_status = store.status()
Status ==
    /\ Len(store_calls) < MaxCalls
    /\ \E up \in BOOLEAN :
        LET end == status(store, up)
        IN  /\ store' = end.self
            /\ pinged' = (pinged \/ end.ping_ok)
            /\ store_calls' =
                 Append(store_calls, [call |-> "status", outcome |-> end.outcome])
    /\ UNCHANGED <<classifiers, loads, requests>>
    /\ UNCHANGED ProcessOnly

\* POST /predict: store.insert_prediction(safe_json(record))
StoreInsert ==
    /\ Len(store_calls) < MaxCalls
    /\ \E up \in BOOLEAN :
        LET end == insert_prediction(store, up)
        IN  /\ store' = end.self
            /\ pinged' = (pinged \/ end.ping_ok)
            /\ store_calls' =
                 Append(store_calls,
                        [call |-> "insert_prediction", outcome |-> end.outcome])
    /\ UNCHANGED <<classifiers, loads, requests>>
    /\ UNCHANGED ProcessOnly

\* GET /predictions: store.list_predictions(limit=limit)
StoreList ==
    /\ Len(store_calls) < MaxCalls
    /\ \E up \in BOOLEAN :
        LET end == list_predictions(store, up)
        IN  /\ store' = end.self
            /\ pinged' = (pinged \/ end.ping_ok)
            /\ store_calls' =
                 Append(store_calls,
                        [call |-> "list_predictions", outcome |-> end.outcome])
    /\ UNCHANGED <<classifiers, loads, requests>>
    /\ UNCHANGED ProcessOnly

NextStore == Status \/ StoreInsert \/ StoreList

SpecStore == InitStore /\ [][NextStore]_vars

\* C28: an enabled store's status() returns ok=True only if a ping of the
\* server has succeeded in that call or an earlier one, and a connect()
\* whose ping failed leaves no collection that later calls take as connected.
C28_OkOnlyAfterPing ==
    /\ (/\ store_calls # <<>>
        /\ store_calls[Len(store_calls)].call = "status"
        /\ store_calls[Len(store_calls)].outcome.returns.enabled
        /\ store_calls[Len(store_calls)].outcome.returns.ok) => pinged
    /\ (store._enabled /\ store._collection # None) => pinged
---------------------------------------------------------------------------
(* The prediction predict() selects *)

\* The trained model of the request's subject exists.
ModelAvailable ==
    IF response.subject = "fruit" THEN response.debug.fruit_model_available
                                  ELSE response.debug.leaf_model_available

\* The class and confidence of the prediction the request went on with.
Selected == IF record.fruit # None THEN record.fruit ELSE record.leaf

\* C29: with a trained model, predict classifies the original and the
\* enhanced image and hands the gate the larger of the two confidences;
\* used_enhanced_image is true exactly when the enhanced confidence is
\* strictly greater, so a tie keeps the original prediction.  With the
\* fallback classifier used_enhanced_image is false.
C29_BestOfTwo ==
    Succeeded =>
        /\ ModelAvailable =>
             LET original == calls.predictions.original
                 enhanced == calls.predictions.enhanced
             IN  /\ original.tensor = resize_for_model(OriginalGrid, 224)
                 /\ enhanced.tensor = resize_for_model(grids[EnhancedArray], 224)
                 /\ calls.is_bignay_image.confidence =
                        Max(original.pred.confidence, enhanced.pred.confidence)
                 /\ response.debug.used_enhanced_image
                        <=> enhanced.pred.confidence > original.pred.confidence
                 /\ enhanced.pred.confidence = original.pred.confidence
                        => Selected.class = original.pred.class_name
                 /\ Selected.class =
                        IF response.debug.used_enhanced_image
                            THEN enhanced.pred.class_name
                            ELSE original.pred.class_name
        /\ ~ModelAvailable =>
             /\ ~response.debug.used_enhanced_image
             /\ calls.predictions = None

\* A tie between two different classes: the original one is kept.
C29_Witness ==
    /\ Succeeded
    /\ ModelAvailable
    /\ calls.predictions.original.pred.confidence
           = calls.predictions.enhanced.pred.confidence
    /\ calls.predictions.original.pred.class_name
           # calls.predictions.enhanced.pred.class_name
    /\ Selected.class = calls.predictions.original.pred.class_name
    /\ ~response.debug.used_enhanced_image

---------------------------------------------------------------------------
(* The response and the record of a rejected request *)

\* C30: when the gate rejects, the response and the record persisted for
\* the request both carry result "not_bignay" with fruit and leaf null;
\* and every record agrees with its response on result, confidence, fruit
\* and leaf.
C30_RecordAgrees ==
    Succeeded =>
        /\ ~response.is_bignay =>
             /\ response.result = "not_bignay"
             /\ response.fruit = None
             /\ response.leaf = None
             /\ record.result = "not_bignay"
             /\ record.fruit = None
             /\ record.leaf = None
        /\ record.result = response.result
        /\ record.confidence = response.confidence
        /\ record.fruit = response.fruit
        /\ record.leaf = response.leaf

====
